---- MODULE Spec2Model ----
(***************************************************************************)
(* Lox front end: the lazy lexer of src/src/lexer.rs and the recursive      *)
(* descent parser of src/src/parser.rs as state machines.                  *)
(* Byte offsets are 0-based as in the source (lexeme_start, lexeme_end);   *)
(* the source text is a sequence of one-character strings, so the byte at  *)
(* offset i is source[i + 1]. The parser's current_token_index is 0-based  *)
(* too, so the current token is tokens[current_token_index + 1].           *)
(***************************************************************************)
EXTENDS Integers, Sequences, FiniteSets, TLC

VARIABLES source, lexeme_start, lexeme_end, line_number, end_of_file_emitted,
          result, yielded, polls,
          tokens, current_token_index, parse_result, output

\* The fields of the Lexer, and what its calls returned.
lexerVars == <<source, lexeme_start, lexeme_end, line_number, end_of_file_emitted,
               result, yielded, polls>>

\* The fields of the Parser, what the last call on it returned, and the last
\* line the driver printed.
parserVars == <<tokens, current_token_index, parse_result, output>>

vars == <<lexerVars, parserVars>>

\* Longest source text explored.
MaxLen == 3
\* Number of calls explored after the stream has reported EndOfFile.
MaxPolls == 2

\* The bytes source texts are drawn from: one or two representatives of
\* every class the lexer's match distinguishes.
Bytes == {"!", "=", "<", ">", "+", ".", "/", "\"", "1", "a", "@", " ", "\n"}

RECURSIVE SeqsUpTo(_)
SeqsUpTo(n) ==
    IF n = 0 THEN {<<>>}
    ELSE LET shorter == SeqsUpTo(n - 1)
         IN shorter \cup {Append(s, b) : s \in {t \in shorter : Len(t) = n - 1}, b \in Bytes}

Sources == SeqsUpTo(MaxLen)

\* All texts of at most n bytes over `bytes`.
RECURSIVE TextsOver(_, _)
TextsOver(bytes, n) ==
    IF n = 0 THEN {<<>>}
    ELSE LET shorter == TextsOver(bytes, n - 1)
         IN shorter \cup {Append(s, b) : s \in {t \in shorter : Len(t) = n - 1}, b \in bytes}

\* Longest source text explored for the comment rule.
MaxCommentLen == 5

\* Source texts with comments: '/', the newline that ends a comment, and
\* bytes that would be a token or an error outside a comment.
CommentSources == TextsOver({"/", "\n", "@", "\"", "1", "."}, MaxCommentLen)

----------------------------------------------------------------------------
\* u8 classification (core::num, as used by the lexer)

Digits == {"0", "1", "2", "3", "4", "5", "6", "7", "8", "9"}

Letters == {"a", "b", "c", "d", "e", "f", "g", "h", "i", "j", "k", "l", "m",
            "n", "o", "p", "q", "r", "s", "t", "u", "v", "w", "x", "y", "z",
            "A", "B", "C", "D", "E", "F", "G", "H", "I", "J", "K", "L", "M",
            "N", "O", "P", "Q", "R", "S", "T", "U", "V", "W", "X", "Y", "Z"}

IsAsciiDigit(b) == b \in Digits

IsAsciiAlphabetic(b) == b \in Letters

IsAsciiAlphanumeric(b) == b \in Letters \cup Digits

IsAsciiWhitespace(b) == b \in {" ", "\t", "\n", "\f", "\r"}

----------------------------------------------------------------------------
\* Token and TokenKind

Token(kind, lexeme, line) == [kind |-> kind, lexeme |-> lexeme, line |-> line]

EndOfFileToken(line) == [kind |-> "EndOfFile", lexeme |-> <<>>, line |-> line]

\* ParseKeyword with the kinds of the arms "for" and "fun" exchanged.
ParseKeywordForFunSwapped(lexeme) ==
    CASE lexeme = <<"a", "n", "d">> -> "And"
      [] lexeme = <<"c", "l", "a", "s", "s">> -> "Class"
      [] lexeme = <<"e", "l", "s", "e">> -> "Else"
      [] lexeme = <<"f", "a", "l", "s", "e">> -> "False"
      [] lexeme = <<"f", "o", "r">> -> "Fun"
      [] lexeme = <<"f", "u", "n">> -> "For"
      [] lexeme = <<"i", "f">> -> "If"
      [] lexeme = <<"n", "i", "l">> -> "Nil"
      [] lexeme = <<"o", "r">> -> "Or"
      [] lexeme = <<"p", "r", "i", "n", "t">> -> "Print"
      [] lexeme = <<"r", "e", "t", "u", "r", "n">> -> "Return"
      [] lexeme = <<"s", "u", "p", "e", "r">> -> "Super"
      [] lexeme = <<"t", "h", "i", "s">> -> "This"
      [] lexeme = <<"t", "r", "u", "e">> -> "True"
      [] lexeme = <<"v", "a", "r">> -> "Var"
      [] lexeme = <<"w", "h", "i", "l", "e">> -> "While"
      [] OTHER -> "Identifier"

ParseKeyword(lexeme) ==
    CASE lexeme = <<"a", "n", "d">> -> "And"
      [] lexeme = <<"c", "l", "a", "s", "s">> -> "Class"
      [] lexeme = <<"e", "l", "s", "e">> -> "Else"
      [] lexeme = <<"f", "a", "l", "s", "e">> -> "False"
      [] lexeme = <<"f", "o", "r">> -> "For"
      [] lexeme = <<"f", "u", "n">> -> "Fun"
      [] lexeme = <<"i", "f">> -> "If"
      [] lexeme = <<"n", "i", "l">> -> "Nil"
      [] lexeme = <<"o", "r">> -> "Or"
      [] lexeme = <<"p", "r", "i", "n", "t">> -> "Print"
      [] lexeme = <<"r", "e", "t", "u", "r", "n">> -> "Return"
      [] lexeme = <<"s", "u", "p", "e", "r">> -> "Super"
      [] lexeme = <<"t", "h", "i", "s">> -> "This"
      [] lexeme = <<"t", "r", "u", "e">> -> "True"
      [] lexeme = <<"v", "a", "r">> -> "Var"
      [] lexeme = <<"w", "h", "i", "l", "e">> -> "While"
      [] OTHER -> "Identifier"

----------------------------------------------------------------------------
\* Lexer byte / lexeme helpers

CurrentByteAvailable(src, end) == end < Len(src)

NextByteAvailable(src, end) == end + 1 < Len(src)

GetCurrentByte(src, end) == src[end + 1]

GetNextByte(src, end) == src[end + 2]

GetCurrentLexeme(src, start, end) == SubSeq(src, start + 1, end)

GetCurrentToken(src, start, end, line, kind) ==
    Token(kind, GetCurrentLexeme(src, start, end), line)

\* Each Consume* operator is the loop of the method of the same name; it
\* returns the value of lexeme_end (and what else the method changes).
\* ConsumeCommentLine without the test for the newline.
RECURSIVE ConsumeCommentLineIgnoresNewline(_, _)
ConsumeCommentLineIgnoresNewline(src, end) ==
    IF CurrentByteAvailable(src, end)
    THEN ConsumeCommentLineIgnoresNewline(src, end + 1)
    ELSE end

RECURSIVE ConsumeCommentLine(_, _)
ConsumeCommentLine(src, end) ==
    IF CurrentByteAvailable(src, end) /\ GetCurrentByte(src, end) # "\n"
    THEN ConsumeCommentLine(src, end + 1)
    ELSE end

RECURSIVE ConsumeWhitespace(_, _, _)
ConsumeWhitespace(src, end, line) ==
    IF CurrentByteAvailable(src, end) /\ IsAsciiWhitespace(GetCurrentByte(src, end))
    THEN ConsumeWhitespace(src, end + 1,
                           IF GetCurrentByte(src, end) = "\n" THEN line + 1 ELSE line)
    ELSE [end |-> end, line |-> line]

RECURSIVE ConsumeDigits(_, _)
ConsumeDigits(src, end) ==
    IF CurrentByteAvailable(src, end) /\ IsAsciiDigit(GetCurrentByte(src, end))
    THEN ConsumeDigits(src, end + 1)
    ELSE end

RECURSIVE ConsumeIdentifier(_, _)
ConsumeIdentifier(src, end) ==
    IF CurrentByteAvailable(src, end)
       /\ (IsAsciiAlphanumeric(GetCurrentByte(src, end)) \/ GetCurrentByte(src, end) = "_")
    THEN ConsumeIdentifier(src, end + 1)
    ELSE end

IsCurrentByteUnrecognized(src, end) ==
    LET b == GetCurrentByte(src, end)
    IN CASE b \in {"(", ")", "{", "}", ",", ".", "-", "+", ";", "*", "!", "=",
                   "<", ">", "/", "\""} -> TRUE
         [] IsAsciiAlphanumeric(b) \/ IsAsciiWhitespace(b) \/ b = "_" -> FALSE
         [] OTHER -> TRUE

RECURSIVE ConsumeUnrecognizedLexeme(_, _)
ConsumeUnrecognizedLexeme(src, end) ==
    IF CurrentByteAvailable(src, end) /\ IsCurrentByteUnrecognized(src, end)
    THEN ConsumeUnrecognizedLexeme(src, end + 1)
    ELSE end

----------------------------------------------------------------------------
\* Error helpers

\* str::lines: split at "\n", a "\r" right before the "\n" is dropped, and
\* no empty line is produced after a final "\n".
RECURSIVE FirstNewline(_, _)
FirstNewline(s, i) ==
    IF i > Len(s) THEN 0
    ELSE IF s[i] = "\n" THEN i
    ELSE FirstNewline(s, i + 1)

StripCarriageReturn(s) ==
    IF Len(s) > 0 /\ s[Len(s)] = "\r" THEN SubSeq(s, 1, Len(s) - 1) ELSE s

RECURSIVE Lines(_)
Lines(s) ==
    IF s = <<>> THEN <<>>
    ELSE LET k == FirstNewline(s, 1)
         IN IF k = 0 THEN <<s>>
            ELSE <<StripCarriageReturn(SubSeq(s, 1, k - 1))>> \o Lines(SubSeq(s, k + 1, Len(s)))

\* The for loop over grapheme_indices of one line. The texts explored are
\* ASCII without "\r", so every byte of a line is one grapheme and the
\* indices are 0 .. Len(line) - 1, relative to the start of the line.
RECURSIVE ColumnLoop(_, _, _, _)
ColumnLoop(lineText, i, start, column_number) ==
    IF i >= Len(lineText) THEN column_number
    ELSE IF i = start THEN column_number
    ELSE ColumnLoop(lineText, i + 1, start, column_number + 1)

\* nth(line_number - 1).unwrap() panics when the text has fewer lines.
CalculateLexemePosition(src, start, line) ==
    LET ls == Lines(src)
    IN IF line > Len(ls) THEN [panic |-> TRUE]
       ELSE [panic |-> FALSE,
             line_number |-> line,
             column_number |-> ColumnLoop(ls[line], 0, start, 1)]

OkItem(token) == [tag |-> "Ok", token |-> token]

\* Error handing back the token itself as a successful item.
ErrorReturnsToken(src, start, line, token, kind) ==
    OkItem(token)

Error(src, start, line, token, kind) ==
    LET pos == CalculateLexemePosition(src, start, line)
    IN IF pos.panic THEN [tag |-> "Panic"]
       ELSE [tag |-> "Err", kind |-> kind, token |-> token,
             line_number |-> pos.line_number, column_number |-> pos.column_number]

----------------------------------------------------------------------------
\* Literals

\* StringLiteralLoop giving up at the end of the line.
RECURSIVE StringLiteralLoopStopsAtNewline(_, _)
StringLiteralLoopStopsAtNewline(src, end) ==
    IF CurrentByteAvailable(src, end) /\ GetCurrentByte(src, end) # "\n"
    THEN IF GetCurrentByte(src, end) = "\"" THEN [closed |-> TRUE, end |-> end + 1]
         ELSE StringLiteralLoopStopsAtNewline(src, end + 1)
    ELSE [closed |-> FALSE, end |-> end]

\* StringLiteralLoop taking the end of the source for a closing '"'.
RECURSIVE StringLiteralLoopClosesAtEnd(_, _)
StringLiteralLoopClosesAtEnd(src, end) ==
    IF CurrentByteAvailable(src, end)
    THEN IF GetCurrentByte(src, end) = "\"" THEN [closed |-> TRUE, end |-> end + 1]
         ELSE StringLiteralLoopClosesAtEnd(src, end + 1)
    ELSE [closed |-> TRUE, end |-> end]

\* The while loop of consume_string_literal: stops after the first '"'.
RECURSIVE StringLiteralLoop(_, _)
StringLiteralLoop(src, end) ==
    IF CurrentByteAvailable(src, end)
    THEN IF GetCurrentByte(src, end) = "\"" THEN [closed |-> TRUE, end |-> end + 1]
         ELSE StringLiteralLoop(src, end + 1)
    ELSE [closed |-> FALSE, end |-> end]

ConsumeStringLiteral(src, start, end, line) ==
    LET r == StringLiteralLoop(src, end)
    IN IF r.closed THEN [ok |-> TRUE, end |-> r.end]
       ELSE [ok |-> FALSE, end |-> r.end,
             error |-> Error(src, start, line,
                             GetCurrentToken(src, start, r.end, line, "String"),
                             "UnterminatedStringLiteral")]

\* ConsumeNumberLiteral with the error path of src/src/lox/lexer.rs, whose
\* error helper consumed the current byte: the dot is skipped but is not part
\* of the error token.
ConsumeNumberLiteralErrorConsumesDot(src, start, end, line) ==
    LET e1 == ConsumeDigits(src, end)
    IN IF ~CurrentByteAvailable(src, e1) THEN [ok |-> TRUE, end |-> e1]
       ELSE IF GetCurrentByte(src, e1) = "."
       THEN IF ~NextByteAvailable(src, e1) \/ ~IsAsciiDigit(GetNextByte(src, e1))
            THEN [ok |-> FALSE, end |-> e1 + 1,
                  error |-> Error(src, start, line,
                                  GetCurrentToken(src, start, e1, line, "Number"),
                                  "NumberTrailingDot")]
            ELSE [ok |-> TRUE, end |-> ConsumeDigits(src, e1 + 1)]
       ELSE [ok |-> TRUE, end |-> e1]

\* ConsumeNumberLiteral rewinding lexeme_end to the start of the lexeme on its
\* error path.
ConsumeNumberLiteralErrorRewinds(src, start, end, line) ==
    LET e1 == ConsumeDigits(src, end)
    IN IF ~CurrentByteAvailable(src, e1) THEN [ok |-> TRUE, end |-> e1]
       ELSE IF GetCurrentByte(src, e1) = "."
       THEN IF ~NextByteAvailable(src, e1) \/ ~IsAsciiDigit(GetNextByte(src, e1))
            THEN [ok |-> FALSE, end |-> start,
                  error |-> Error(src, start, line,
                                  GetCurrentToken(src, start, e1, line, "Number"),
                                  "NumberTrailingDot")]
            ELSE [ok |-> TRUE, end |-> ConsumeDigits(src, e1 + 1)]
       ELSE [ok |-> TRUE, end |-> e1]

\* ConsumeNumberLiteral without the check for a digit after the dot.
ConsumeNumberLiteralNoDigitCheck(src, start, end, line) ==
    LET e1 == ConsumeDigits(src, end)
    IN IF ~CurrentByteAvailable(src, e1) THEN [ok |-> TRUE, end |-> e1]
       ELSE IF GetCurrentByte(src, e1) = "."
       THEN [ok |-> TRUE, end |-> ConsumeDigits(src, e1 + 1)]
       ELSE [ok |-> TRUE, end |-> e1]

ConsumeNumberLiteral(src, start, end, line) ==
    LET e1 == ConsumeDigits(src, end)
    IN IF ~CurrentByteAvailable(src, e1) THEN [ok |-> TRUE, end |-> e1]
       ELSE IF GetCurrentByte(src, e1) = "."
       THEN IF ~NextByteAvailable(src, e1) \/ ~IsAsciiDigit(GetNextByte(src, e1))
            THEN [ok |-> FALSE, end |-> e1,
                  error |-> Error(src, start, line,
                                  GetCurrentToken(src, start, e1, line, "Number"),
                                  "NumberTrailingDot")]
            ELSE [ok |-> TRUE, end |-> ConsumeDigits(src, e1 + 1)]
       ELSE [ok |-> TRUE, end |-> e1]

----------------------------------------------------------------------------
\* Lexer::next_token

\* The kind of the one-byte punctuation arms of the match.
PunctuationKind(b) ==
    CASE b = "(" -> "LeftParentheses"
      [] b = ")" -> "RightParentheses"
      [] b = "{" -> "LeftBrace"
      [] b = "}" -> "RightBrace"
      [] b = "," -> "Comma"
      [] b = "." -> "Dot"
      [] b = "-" -> "Minus"
      [] b = "+" -> "Plus"
      [] b = ";" -> "Semicolon"
      [] b = "*" -> "Star"

\* The arms for '!', '=', '<', '>': the kind with and without a trailing '='.
OperatorKind(b, followedByEqual) ==
    CASE b = "!" -> IF followedByEqual THEN "BangEqual" ELSE "Bang"
      [] b = "=" -> IF followedByEqual THEN "EqualEqual" ELSE "Equal"
      [] b = "<" -> IF followedByEqual THEN "LessEqual" ELSE "Less"
      [] b = ">" -> IF followedByEqual THEN "GreaterEqual" ELSE "Greater"

\* What one call leaves behind: the four fields of the Lexer and the value
\* returned (res).
Outcome(start, end, line, eof, res) ==
    [lexeme_start |-> start, lexeme_end |-> end, line_number |-> line,
     end_of_file_emitted |-> eof, res |-> res]

\* EndOfFileOutcome without the assignment end_of_file_emitted = true.
EndOfFileOutcomeFlagNotSet(src, start, end, line) ==
    Outcome(start, end, line, FALSE, OkItem(EndOfFileToken(line)))

\* EndOfFileOutcome building the token with get_current_token, so that it
\* carries the last lexeme instead of the empty one.
EndOfFileOutcomeCurrentLexeme(src, start, end, line) ==
    Outcome(start, end, line, TRUE, OkItem(GetCurrentToken(src, start, end, line, "EndOfFile")))

\* The first statement of next_token, taken when no byte remains.
EndOfFileOutcome(src, start, end, line) ==
    Outcome(start, end, line, TRUE, OkItem(EndOfFileToken(line)))

\* FollowedBy looking one byte too far (get_next_byte for get_current_byte).
FollowedByNextByte(src, end, b) ==
    NextByteAvailable(src, end) /\ GetNextByte(src, end) = b

\* The guard of the two-byte arms: one byte of lookahead.
FollowedBy(src, end, b) ==
    CurrentByteAvailable(src, end) /\ GetCurrentByte(src, end) = b

\* StringLiteralLexeme without the slicing: the quotes stay in the lexeme.
StringLiteralLexemeWithQuotes(src, start, end) == GetCurrentLexeme(src, start, end)

\* The lexeme of a terminated string literal: the slice without both quotes.
StringLiteralLexeme(src, start, end) == SubSeq(src, start + 2, end - 1)

RECURSIVE NextToken(_, _, _, _, _)
NextToken(src, start0, end0, line, eof) ==
    IF ~CurrentByteAvailable(src, end0)
    THEN EndOfFileOutcome(src, start0, end0, line)
    ELSE
      LET start == end0
          previous_byte == GetCurrentByte(src, end0)
          end == end0 + 1
          followedBy(b) == FollowedBy(src, end, b)
      IN CASE previous_byte \in {"(", ")", "{", "}", ",", ".", "-", "+", ";", "*"} ->
                Outcome(start, end, line, eof,
                        OkItem(GetCurrentToken(src, start, end, line, PunctuationKind(previous_byte))))
           [] previous_byte \in {"!", "=", "<", ">"} ->
                IF followedBy("=")
                THEN Outcome(start, end + 1, line, eof,
                             OkItem(GetCurrentToken(src, start, end + 1, line,
                                                    OperatorKind(previous_byte, TRUE))))
                ELSE Outcome(start, end, line, eof,
                             OkItem(GetCurrentToken(src, start, end, line,
                                                    OperatorKind(previous_byte, FALSE))))
           [] previous_byte = "/" ->
                IF followedBy("/")
                THEN NextToken(src, start, ConsumeCommentLine(src, end), line, eof)
                ELSE Outcome(start, end, line, eof,
                             OkItem(GetCurrentToken(src, start, end, line, "Slash")))
           [] previous_byte = "\"" ->
                LET r == ConsumeStringLiteral(src, start, end, line)
                IN IF r.ok
                   THEN Outcome(start, r.end, line, eof,
                                OkItem(Token("String", StringLiteralLexeme(src, start, r.end), line)))
                   ELSE Outcome(start, r.end, line, eof, r.error)
           [] IsAsciiDigit(previous_byte) ->
                LET r == ConsumeNumberLiteral(src, start, end, line)
                IN IF r.ok
                   THEN Outcome(start, r.end, line, eof,
                                OkItem(GetCurrentToken(src, start, r.end, line, "Number")))
                   ELSE Outcome(start, r.end, line, eof, r.error)
           [] IsAsciiAlphabetic(previous_byte) \/ previous_byte = "_" ->
                LET e == ConsumeIdentifier(src, end)
                IN Outcome(start, e, line, eof,
                           OkItem(GetCurrentToken(src, start, e, line,
                                                  ParseKeyword(GetCurrentLexeme(src, start, e)))))
           [] IsAsciiWhitespace(previous_byte) ->
                LET w == ConsumeWhitespace(src, end,
                                           IF previous_byte = "\n" THEN line + 1 ELSE line)
                IN NextToken(src, start, w.end, w.line, eof)
           [] OTHER ->
                LET e == ConsumeUnrecognizedLexeme(src, end)
                IN Outcome(start, e, line, eof,
                           Error(src, start, line,
                                 GetCurrentToken(src, start, e, line, "Unrecognized"),
                                 "Unrecognized"))

----------------------------------------------------------------------------
\* The state machine

NoCall == [tag |-> "NoCall"]

None == [tag |-> "None"]

Panicked == result.tag = "Panic"

\* Lexer::new on a source text of `texts`.
LexerNew(texts) ==
    /\ source \in texts
    /\ lexeme_start = 0
    /\ lexeme_end = 0
    /\ line_number = 1
    /\ end_of_file_emitted = FALSE
    /\ result = NoCall
    /\ yielded = <<>>
    /\ polls = 0

\* No Parser has been built.
NoParser ==
    /\ tokens = <<>>
    /\ current_token_index = 0
    /\ parse_result = NoCall
    /\ output = <<>>

\* Lexer::new on any source text within the bounds.
Init == LexerNew(Sources) /\ NoParser

\* A call made once end_of_file_emitted is set is counted, so that the
\* exploration of repeated polling is bounded.
CountPoll ==
    /\ end_of_file_emitted => polls < MaxPolls
    /\ polls' = IF end_of_file_emitted THEN polls + 1 ELSE polls

\* A direct call of the public method Lexer::next_token.
CallNextToken ==
    /\ ~Panicked
    /\ CountPoll
    /\ LET o == NextToken(source, lexeme_start, lexeme_end, line_number, end_of_file_emitted)
       IN /\ lexeme_start' = o.lexeme_start
          /\ lexeme_end' = o.lexeme_end
          /\ line_number' = o.line_number
          /\ end_of_file_emitted' = o.end_of_file_emitted
          /\ result' = o.res
          /\ yielded' = IF o.res.tag = "Panic" THEN yielded ELSE Append(yielded, o.res)
    /\ UNCHANGED <<source, parserVars>>

\* Iterator::next once the EndOfFile token has been emitted.
IteratorNextNone ==
    /\ ~Panicked
    /\ end_of_file_emitted
    /\ CountPoll
    /\ result' = None
    /\ UNCHANGED <<source, lexeme_start, lexeme_end, line_number, end_of_file_emitted, yielded>>
    /\ UNCHANGED parserVars

\* Iterator::next before that: the result of next_token wrapped in Some.
IteratorNextSome ==
    /\ ~end_of_file_emitted
    /\ CallNextToken

Next == IteratorNextNone \/ IteratorNextSome \/ CallNextToken

Spec == Init /\ [][Next]_vars

\* A consumer that only iterates (for item in Lexer::new(source)).
NextIter == IteratorNextNone \/ IteratorNextSome

SpecIter == Init /\ [][NextIter]_vars

\* The lexer on source texts with comments.
InitComment == LexerNew(CommentSources) /\ NoParser

SpecComment == InitComment /\ [][Next]_vars

\* Longest text of operators, punctuation and whitespace explored.
MaxPunctLen == 5

\* Source texts made only of operators, punctuation and whitespace.
PunctSources == TextsOver({"/", "\n", " ", "=", "!", "("}, MaxPunctLen)

\* The lexer on operators, punctuation and whitespace.
InitPunct == LexerNew(PunctSources) /\ NoParser

SpecPunct == InitPunct /\ [][Next]_vars

\* Longest text over WordBytes explored for identifiers and keywords.
MaxWordLen == 4

\* Letters that spell for, or, if (and not quite: uppercase, '_', a digit).
WordBytes == {"f", "o", "r", "i", "O", "_", "1", " "}

\* The 16 reserved words, each with the kind it is given.
ReservedWords ==
    {<<<<"a", "n", "d">>, "And">>,
     <<<<"c", "l", "a", "s", "s">>, "Class">>,
     <<<<"e", "l", "s", "e">>, "Else">>,
     <<<<"f", "a", "l", "s", "e">>, "False">>,
     <<<<"f", "o", "r">>, "For">>,
     <<<<"f", "u", "n">>, "Fun">>,
     <<<<"i", "f">>, "If">>,
     <<<<"n", "i", "l">>, "Nil">>,
     <<<<"o", "r">>, "Or">>,
     <<<<"p", "r", "i", "n", "t">>, "Print">>,
     <<<<"r", "e", "t", "u", "r", "n">>, "Return">>,
     <<<<"s", "u", "p", "e", "r">>, "Super">>,
     <<<<"t", "h", "i", "s">>, "This">>,
     <<<<"t", "r", "u", "e">>, "True">>,
     <<<<"v", "a", "r">>, "Var">>,
     <<<<"w", "h", "i", "l", "e">>, "While">>}

\* Each reserved word alone, followed by '_', without its last letter, after
\* another letter, and twice with a space between.
ReservedWordTexts ==
    UNION {{w[1], w[1] \o <<"_">>, SubSeq(w[1], 1, Len(w[1]) - 1), <<"x">> \o w[1],
            w[1] \o <<" ">> \o w[1]} : w \in ReservedWords}

WordSources == TextsOver(WordBytes, MaxWordLen) \cup ReservedWordTexts

\* The lexer on identifiers and keywords.
InitWord == LexerNew(WordSources) /\ NoParser

SpecWord == InitWord /\ [][Next]_vars

----------------------------------------------------------------------------
\* Parser: token cursor

\* The operator sets of TokenKind.
EqualityOperators == {"BangEqual", "EqualEqual"}

ComparisonOperators == {"Less", "LessEqual", "Greater", "GreaterEqual"}

TermOperators == {"Plus", "Minus"}

\* FactorOperators with the term operator Plus added.
FactorOperatorsWithPlus == {"Star", "Slash", "Plus"}

FactorOperators == {"Star", "Slash"}

UnaryOperators == {"Bang", "Minus"}

\* tokens[current_token_index]; the model's sequences are 1-based.
PeekCurrentToken(toks, idx) == toks[idx + 1]

\* What stands for the panic of an index computation that underflows or of an
\* index outside the token list.
IndexPanic == [kind |-> "Panic", lexeme |-> <<>>, line |-> 0]

\* tokens[current_token_index - 1]: with the cursor at 0 the subtraction
\* underflows, which panics (or wraps to an index outside the list, which
\* panics too).
PeekPreviousToken(toks, idx) == IF idx = 0 THEN IndexPanic ELSE toks[idx]

IsAtEnd(toks, idx) == PeekCurrentToken(toks, idx).kind = "EndOfFile"

\* The cursor after consume_current_token.
ConsumeCurrentToken(toks, idx) == IF ~IsAtEnd(toks, idx) THEN idx + 1 ELSE idx

\* IsCurrentToken without the is_at_end check.
IsCurrentTokenNoEndCheck(toks, idx, kind) ==
    PeekCurrentToken(toks, idx).kind = kind

IsCurrentToken(toks, idx, kind) ==
    ~IsAtEnd(toks, idx) /\ PeekCurrentToken(toks, idx).kind = kind

\* consume_current_token_of_kind: whether a kind matched, and the cursor after.
ConsumeCurrentTokenOfKind(toks, idx, kinds) ==
    IF \E kind \in kinds : IsCurrentToken(toks, idx, kind)
    THEN [consumed |-> TRUE, index |-> ConsumeCurrentToken(toks, idx)]
    ELSE [consumed |-> FALSE, index |-> idx]

----------------------------------------------------------------------------
\* Expression and ParseError

Binary(left_operand, operator, right_operand) ==
    [node |-> "Binary", left_operand |-> left_operand, operator |-> operator,
     right_operand |-> right_operand]

Unary(operator, right_operand) ==
    [node |-> "Unary", operator |-> operator, right_operand |-> right_operand]

Grouping(expression) == [node |-> "Grouping", expression |-> expression]

Literal(token) == [node |-> "Literal", token |-> token]

\* What a rule returns, with the cursor it leaves behind.
ParseOk(expression, idx) == [ok |-> TRUE, expression |-> expression, index |-> idx]

\* ParseErr with the cursor put back to the first token (a backtracking parser).
ParseErrRewinds(kind, token, idx) ==
    [ok |-> FALSE, error |-> [kind |-> kind, token |-> token], index |-> 0]

ParseErr(kind, token, idx) ==
    [ok |-> FALSE, error |-> [kind |-> kind, token |-> token], index |-> idx]

----------------------------------------------------------------------------
\* Parser: grammar rules. Each takes the token list and the cursor and returns
\* ParseOk or ParseErr with the cursor the rule leaves behind.

RECURSIVE ExpressionRule(_, _)
RECURSIVE EqualityRule(_, _)
RECURSIVE EqualityLoop(_, _)
RECURSIVE ComparisonRule(_, _)
RECURSIVE ComparisonLoop(_, _)
RECURSIVE TermRule(_, _)
RECURSIVE TermLoop(_, _)
RECURSIVE FactorRule(_, _)
RECURSIVE FactorLoop(_, _)
RECURSIVE UnaryRule(_, _)
RECURSIVE PrimaryRule(_, _)

\* The last statement of primary_rule, with the cursor stepped over the token
\* it names, whatever that token is.
ExpectedExpressionSkipsToken(toks, idx) ==
    ParseErr("ExpectedExpression", PeekCurrentToken(toks, idx), idx + 1)

\* The last statement of primary_rule, naming the token before the cursor.
ExpectedExpressionNamesPreviousToken(toks, idx) ==
    ParseErr("ExpectedExpression", PeekPreviousToken(toks, idx), idx)

\* The last statement of primary_rule, with the error consuming its token.
ExpectedExpressionConsumesToken(toks, idx) ==
    ParseErr("ExpectedExpression", PeekCurrentToken(toks, idx), ConsumeCurrentToken(toks, idx))

\* The last statement of primary_rule.
ExpectedExpression(toks, idx) ==
    ParseErr("ExpectedExpression", PeekCurrentToken(toks, idx), idx)

\* CloseGrouping naming the token before the cursor in its error.
CloseGroupingNamesPreviousToken(toks, inner) ==
    IF ~inner.ok THEN inner
    ELSE LET c == ConsumeCurrentTokenOfKind(toks, inner.index, {"RightParentheses"})
         IN IF ~c.consumed
            THEN ParseErr("MissingRightParenthesis",
                          PeekPreviousToken(toks, inner.index), inner.index)
            ELSE ParseOk(Grouping(inner.expression), c.index)

\* The left-parenthesis branch of primary_rule after expression_rule returned
\* inner: its error is passed on, else the right parenthesis is required.
CloseGrouping(toks, inner) ==
    IF ~inner.ok THEN inner
    ELSE LET c == ConsumeCurrentTokenOfKind(toks, inner.index, {"RightParentheses"})
         IN IF ~c.consumed
            THEN ParseErr("MissingRightParenthesis",
                          PeekCurrentToken(toks, inner.index), inner.index)
            ELSE ParseOk(Grouping(inner.expression), c.index)

\* PrimaryLiteralKinds with Identifier accepted as a literal.
PrimaryLiteralKindsWithIdentifier ==
    {"False", "True", "Nil", "Number", "String", "Identifier"}

\* The kinds the first four branches of primary_rule turn into a Literal.
PrimaryLiteralKinds == {"False", "True", "Nil", "Number", "String"}

PrimaryRule(toks, idx) ==
    LET lit == ConsumeCurrentTokenOfKind(toks, idx, PrimaryLiteralKinds)
        paren == ConsumeCurrentTokenOfKind(toks, idx, {"LeftParentheses"})
    IN IF lit.consumed
       THEN ParseOk(Literal(PeekPreviousToken(toks, lit.index)), lit.index)
       ELSE IF paren.consumed
            THEN CloseGrouping(toks, ExpressionRule(toks, paren.index))
       ELSE ExpectedExpression(toks, idx)

\* WrapUnary reporting a failed operand as UnaryExpressionMissingOperand on the
\* operator.
WrapUnaryMissingOperand(operator, right) ==
    IF ~right.ok THEN ParseErr("UnaryExpressionMissingOperand", operator, right.index)
    ELSE ParseOk(Unary(operator, right.expression), right.index)

\* Expression::Unary around the operand right, or the operand's error.
WrapUnary(operator, right) ==
    IF ~right.ok THEN right
    ELSE ParseOk(Unary(operator, right.expression), right.index)

\* unary_rule with primary_rule for its operand.
UnaryRuleOperandPrimary(toks, idx) ==
    LET c == ConsumeCurrentTokenOfKind(toks, idx, UnaryOperators)
    IN IF c.consumed
       THEN WrapUnary(PeekPreviousToken(toks, c.index), PrimaryRule(toks, c.index))
       ELSE PrimaryRule(toks, idx)

UnaryRule(toks, idx) ==
    LET c == ConsumeCurrentTokenOfKind(toks, idx, UnaryOperators)
    IN IF c.consumed
       THEN WrapUnary(PeekPreviousToken(toks, c.index), UnaryRule(toks, c.index))
       ELSE PrimaryRule(toks, idx)

\* Expression::Binary of the tree so far, the operator and the right operand
\* right, or the right operand's error.
FoldBinary(expression, operator, right) ==
    IF ~right.ok THEN right
    ELSE ParseOk(Binary(expression, operator, right.expression), right.index)

\* The while loop of factor_rule: left is the tree folded so far, or the
\* error that ends the rule.
FactorLoop(toks, left) ==
    IF ~left.ok THEN left
    ELSE LET c == ConsumeCurrentTokenOfKind(toks, left.index, FactorOperators)
         IN IF ~c.consumed THEN left
            ELSE FactorLoop(toks, FoldBinary(left.expression,
                                             PeekPreviousToken(toks, c.index),
                                             UnaryRule(toks, c.index)))

FactorRule(toks, idx) == FactorLoop(toks, UnaryRule(toks, idx))

\* TermLoop parsing its right operand with term_rule (right recursion).
TermLoopRightRecursive(toks, left) ==
    IF ~left.ok THEN left
    ELSE LET c == ConsumeCurrentTokenOfKind(toks, left.index, TermOperators)
         IN IF ~c.consumed THEN left
            ELSE FoldBinary(left.expression, PeekPreviousToken(toks, c.index),
                            TermRule(toks, c.index))

\* The while loop of term_rule: left is the tree folded so far, or the
\* error that ends the rule.
TermLoop(toks, left) ==
    IF ~left.ok THEN left
    ELSE LET c == ConsumeCurrentTokenOfKind(toks, left.index, TermOperators)
         IN IF ~c.consumed THEN left
            ELSE TermLoop(toks, FoldBinary(left.expression,
                                             PeekPreviousToken(toks, c.index),
                                             FactorRule(toks, c.index)))

TermRule(toks, idx) == TermLoop(toks, FactorRule(toks, idx))

\* The while loop of comparison_rule: left is the tree folded so far, or the
\* error that ends the rule.
ComparisonLoop(toks, left) ==
    IF ~left.ok THEN left
    ELSE LET c == ConsumeCurrentTokenOfKind(toks, left.index, ComparisonOperators)
         IN IF ~c.consumed THEN left
            ELSE ComparisonLoop(toks, FoldBinary(left.expression,
                                             PeekPreviousToken(toks, c.index),
                                             TermRule(toks, c.index)))

ComparisonRule(toks, idx) == ComparisonLoop(toks, TermRule(toks, idx))

\* The while loop of equality_rule: left is the tree folded so far, or the
\* error that ends the rule.
EqualityLoop(toks, left) ==
    IF ~left.ok THEN left
    ELSE LET c == ConsumeCurrentTokenOfKind(toks, left.index, EqualityOperators)
         IN IF ~c.consumed THEN left
            ELSE EqualityLoop(toks, FoldBinary(left.expression,
                                             PeekPreviousToken(toks, c.index),
                                             ComparisonRule(toks, c.index)))

EqualityRule(toks, idx) == EqualityLoop(toks, ComparisonRule(toks, idx))

\* An expression that must reach the end of the token list: left is what
\* equality_rule returned.
RequireEnd(toks, left) ==
    IF left.ok /\ ~IsAtEnd(toks, left.index)
    THEN ParseErr("ExpectedExpression", PeekCurrentToken(toks, left.index), left.index)
    ELSE left

\* expression_rule failing when tokens are left over after the expression.
ExpressionRuleRequiresEnd(toks, idx) == RequireEnd(toks, EqualityRule(toks, idx))

ExpressionRule(toks, idx) == EqualityRule(toks, idx)

----------------------------------------------------------------------------
\* Parser: state machine

\* Most tokens before the EndOfFile token in an explored token list.
MaxTokens == 5

\* The lexeme the lexer gives a token of each kind explored.
LexemeOf(kind) ==
    CASE kind = "Number" -> <<"1">>
      [] kind = "Identifier" -> <<"a">>
      [] kind = "Minus" -> <<"-">>
      [] kind = "Plus" -> <<"+">>
      [] kind = "Star" -> <<"*">>
      [] kind = "EqualEqual" -> <<"=", "=">>
      [] kind = "Less" -> <<"<">>
      [] kind = "Bang" -> <<"!">>
      [] kind = "LeftParentheses" -> <<"(">>
      [] kind = "RightParentheses" -> <<")">>
      [] kind = "String" -> <<"a">>
      [] kind = "True" -> <<"t", "r", "u", "e">>
      [] kind = "False" -> <<"f", "a", "l", "s", "e">>
      [] kind = "Nil" -> <<"n", "i", "l">>
      [] OTHER -> <<>>

\* The token list of the given kinds closed by the EndOfFile token. The i-th
\* token stands on line i.
TokenList(kindList) ==
    [i \in 1 .. Len(kindList) + 1 |->
        IF i = Len(kindList) + 1 THEN EndOfFileToken(i)
        ELSE Token(kindList[i], LexemeOf(kindList[i]), i)]

ParserKinds ==
    {"Number", "Identifier", "Minus", "Plus", "Star", "EqualEqual", "Less", "Bang",
     "LeftParentheses", "RightParentheses"}

\* Parser::new on a list of at most n tokens of the given kinds.
ParserNew(kinds, n) ==
    /\ \E k \in 0 .. n : \E kindList \in [1 .. k -> kinds] : tokens = TokenList(kindList)
    /\ current_token_index = 0
    /\ parse_result = NoCall
    /\ output = <<>>

InitParser == LexerNew({<<>>}) /\ ParserNew(ParserKinds, MaxTokens)

\* The Result a rule returns to its caller.
ParseResult(r) ==
    IF r.ok THEN [tag |-> "Ok", expression |-> r.expression]
    ELSE [tag |-> "Err", error |-> r.error]

\* A call of expression_rule on the parser.
CallExpressionRule ==
    /\ tokens # <<>>
    /\ \E r \in {ExpressionRule(tokens, current_token_index)} :
          /\ parse_result' = ParseResult(r)
          /\ current_token_index' = r.index
    /\ UNCHANGED <<tokens, output, lexerVars>>

NextParser == CallExpressionRule

SpecParser == InitParser /\ [][NextParser]_vars

\* What collect leaves behind: the lexer's fields, every item it drew, and
\* whether it ended at None ("Ok"), at the first Err, or in a panic.
Collected(o, items, status) ==
    [lexeme_start |-> o.lexeme_start, lexeme_end |-> o.lexeme_end,
     line_number |-> o.line_number, end_of_file_emitted |-> o.end_of_file_emitted,
     items |-> items, status |-> status]

RECURSIVE CollectSkipsErrors(_, _, _, _, _, _)
RECURSIVE Collect(_, _, _, _, _, _)

\* Collect dropping every Err item and going on (filter_map(Result::ok)).
CollectSkipsErrors(src, start, end, line, eof, items) ==
    IF eof THEN Collected(Outcome(start, end, line, eof, None), items, "Ok")
    ELSE LET o == NextToken(src, start, end, line, eof)
         IN IF o.res.tag = "Panic" THEN Collected(o, items, "Panic")
            ELSE CollectSkipsErrors(src, o.lexeme_start, o.lexeme_end, o.line_number,
                                    o.end_of_file_emitted,
                                    IF o.res.tag = "Err" THEN items ELSE Append(items, o.res))

\* value.collect::<Result<_, _>>(): Iterator::next until None or the first Err.
Collect(src, start, end, line, eof, items) ==
    IF eof THEN Collected(Outcome(start, end, line, eof, None), items, "Ok")
    ELSE LET o == NextToken(src, start, end, line, eof)
         IN IF o.res.tag = "Panic" THEN Collected(o, items, "Panic")
            ELSE IF o.res.tag = "Err" THEN Collected(o, Append(items, o.res), "Err")
            ELSE Collect(src, o.lexeme_start, o.lexeme_end, o.line_number,
                         o.end_of_file_emitted, Append(items, o.res))

\* From<LexerError> for ParseError.
FromLexerError(value) ==
    [tag |-> "Err",
     error |-> [kind |-> "LexerError", token |-> value.token, lexer_error |-> value]]

\* Parser::try_from(lexer), which takes the lexer by value: on Ok the parser
\* holds the collected tokens, on Err no parser exists.
TryFromLexer ==
    /\ tokens = <<>>
    /\ parse_result = NoCall
    /\ ~Panicked
    /\ LET c == Collect(source, lexeme_start, lexeme_end, line_number,
                        end_of_file_emitted, <<>>)
       IN /\ lexeme_start' = c.lexeme_start
          /\ lexeme_end' = c.lexeme_end
          /\ line_number' = c.line_number
          /\ end_of_file_emitted' = c.end_of_file_emitted
          /\ yielded' = yielded \o c.items
          /\ result' = IF c.status = "Panic" THEN [tag |-> "Panic"]
                       ELSE IF c.items = <<>> THEN None
                       ELSE c.items[Len(c.items)]
          /\ tokens' = IF c.status = "Ok"
                       THEN [i \in 1 .. Len(c.items) |-> c.items[i].token]
                       ELSE <<>>
          /\ parse_result' = IF c.status = "Ok" THEN NoCall
                             ELSE IF c.status = "Err"
                                  THEN FromLexerError(c.items[Len(c.items)])
                             ELSE [tag |-> "Panic"]
          /\ current_token_index' = 0
    /\ UNCHANGED <<source, polls, output>>

\* Parser::try_from(Lexer::new(source)) and then the grammar.
NextTryFrom == TryFromLexer \/ CallExpressionRule

SpecTryFrom == Init /\ [][NextTryFrom]_vars

\* Most tokens before the EndOfFile token in a list the cursor helper is
\* called on.
MaxHelperTokens == 3

HelperKinds == {"Number", "Plus", "Minus", "Bang", "RightParentheses"}

\* The kind slices the helper is called with: the operator sets of the rules,
\* the slices of primary_rule, and slices that name EndOfFile.
HelperKindSets ==
    {EqualityOperators, ComparisonOperators, TermOperators, FactorOperators, UnaryOperators,
     {"Number", "String"}, {"RightParentheses"}, {"EndOfFile"}, {"Minus", "EndOfFile"}}

InitHelper == LexerNew({<<>>}) /\ ParserNew(HelperKinds, MaxHelperTokens)

\* A call of consume_current_token_of_kind with one of the slices; what it
\* returned is kept with the slice it was given.
CallConsumeCurrentTokenOfKind ==
    /\ tokens # <<>>
    /\ \E kinds \in HelperKindSets :
          \E c \in {ConsumeCurrentTokenOfKind(tokens, current_token_index, kinds)} :
              /\ parse_result' = [tag |-> "Consume", kinds |-> kinds, returned |-> c.consumed]
              /\ current_token_index' = c.index
    /\ UNCHANGED <<tokens, output, lexerVars>>

SpecHelper == InitHelper /\ [][CallConsumeCurrentTokenOfKind]_vars

----------------------------------------------------------------------------
\* Display for Expression, and the driver loop that prints

\* The for loop of parenthesizes: a space and the text of each operand.
RECURSIVE PushOperands(_)
PushOperands(rendered) ==
    IF rendered = <<>> THEN <<>>
    ELSE <<" ">> \o Head(rendered) \o PushOperands(Tail(rendered))

\* Parenthesizes with the name pushed after the operands.
ParenthesizesNameLast(name, rendered) ==
    <<"(">> \o Tail(PushOperands(rendered)) \o <<" ">> \o name \o <<")">>

\* parenthesizes(name, expressions); rendered holds expression.to_string() of
\* each operand.
Parenthesizes(name, rendered) ==
    <<"(">> \o name \o PushOperands(rendered) \o <<")">>

\* Display::fmt for Expression (to_string).
RECURSIVE ExpressionToString(_)
ExpressionToString(e) ==
    CASE e.node = "Binary" ->
            Parenthesizes(e.operator.lexeme,
                          <<ExpressionToString(e.left_operand), ExpressionToString(e.right_operand)>>)
      [] e.node = "Unary" ->
            Parenthesizes(e.operator.lexeme, <<ExpressionToString(e.right_operand)>>)
      [] e.node = "Grouping" ->
            Parenthesizes(<<"g", "r", "o", "u", "p">>, <<ExpressionToString(e.expression)>>)
      [] e.node = "Literal" -> e.token.lexeme

\* The loop of test_parser has reached its break: an error whose token is
\* EndOfFile.
DriverStopped ==
    parse_result.tag = "Err" /\ parse_result.error.token.kind = "EndOfFile"

\* One round of the loop of test_parser: equality_rule, then println of the
\* expression on Ok (eprintln of an error writes nothing to the output).
TestParserRound ==
    /\ tokens # <<>>
    /\ ~DriverStopped
    /\ \E r \in {EqualityRule(tokens, current_token_index)} :
          /\ parse_result' = ParseResult(r)
          /\ current_token_index' = r.index
          /\ output' = IF r.ok THEN ExpressionToString(r.expression) ELSE output
    /\ UNCHANGED <<tokens, lexerVars>>

\* Most tokens before the EndOfFile token in a printed token list.
MaxPrintTokens == 6

\* The tokens of -123 * (45.67).
PrintTokens ==
    {Token("Number", <<"1", "2", "3">>, 1), Token("Number", <<"4", "5", ".", "6", "7">>, 1),
     Token("Minus", <<"-">>, 1), Token("Star", <<"*">>, 1),
     Token("LeftParentheses", <<"(">>, 1), Token("RightParentheses", <<")">>, 1)}

\* The driver on every list of at most MaxPrintTokens of these tokens.
InitPrint ==
    /\ LexerNew({<<>>})
    /\ \E k \in 0 .. MaxPrintTokens : \E ts \in [1 .. k -> PrintTokens] :
          tokens = [i \in 1 .. k + 1 |-> IF i = k + 1 THEN EndOfFileToken(1) ELSE ts[i]]
    /\ current_token_index = 0
    /\ parse_result = NoCall
    /\ output = <<>>

SpecPrint == InitPrint /\ [][TestParserRound]_vars

----------------------------------------------------------------------------
\* The historical lexer (src/src/lox/lexer.rs): no line counter, tokens of
\* kind and lexeme only, errors without a token.

LoxToken(kind, lexeme) == [kind |-> kind, lexeme |-> lexeme]

LoxEndOfFileToken == [kind |-> "EndOfFile", lexeme |-> <<>>]

LoxParseKeyword(lexeme) ==
    CASE lexeme = <<"a", "n", "d">> -> "And"
      [] lexeme = <<"c", "l", "a", "s", "s">> -> "Class"
      [] lexeme = <<"e", "l", "s", "e">> -> "Else"
      [] lexeme = <<"f", "a", "l", "s", "e">> -> "False"
      [] lexeme = <<"f", "o", "r">> -> "For"
      [] lexeme = <<"f", "u", "n">> -> "Fun"
      [] lexeme = <<"i", "f">> -> "If"
      [] lexeme = <<"n", "i", "l">> -> "Nil"
      [] lexeme = <<"o", "r">> -> "Or"
      [] lexeme = <<"p", "r", "i", "n", "t">> -> "Print"
      [] lexeme = <<"r", "e", "t", "u", "r", "n">> -> "Return"
      [] lexeme = <<"s", "u", "p", "e", "r">> -> "Super"
      [] lexeme = <<"t", "h", "i", "s">> -> "This"
      [] lexeme = <<"t", "r", "u", "e">> -> "True"
      [] lexeme = <<"v", "a", "r">> -> "Var"
      [] lexeme = <<"w", "h", "i", "l", "e">> -> "While"
      [] OTHER -> "Identifier"

LoxCurrentByteAvailable(src, end) == end < Len(src)

LoxNextByteAvailable(src, end) == end + 1 < Len(src)

LoxGetCurrentByte(src, end) == src[end + 1]

LoxGetNextByte(src, end) == src[end + 2]

LoxGetCurrentLexeme(src, start, end) == SubSeq(src, start + 1, end)

LoxGetCurrentToken(src, start, end, kind) ==
    LoxToken(kind, LoxGetCurrentLexeme(src, start, end))

RECURSIVE LoxConsumeCommentLine(_, _)
LoxConsumeCommentLine(src, end) ==
    IF LoxCurrentByteAvailable(src, end) /\ LoxGetCurrentByte(src, end) # "\n"
    THEN LoxConsumeCommentLine(src, end + 1)
    ELSE end

RECURSIVE LoxConsumeWhitespace(_, _)
LoxConsumeWhitespace(src, end) ==
    IF LoxCurrentByteAvailable(src, end) /\ IsAsciiWhitespace(LoxGetCurrentByte(src, end))
    THEN LoxConsumeWhitespace(src, end + 1)
    ELSE end

RECURSIVE LoxConsumeDigits(_, _)
LoxConsumeDigits(src, end) ==
    IF LoxCurrentByteAvailable(src, end) /\ IsAsciiDigit(LoxGetCurrentByte(src, end))
    THEN LoxConsumeDigits(src, end + 1)
    ELSE end

RECURSIVE LoxConsumeIdentifier(_, _)
LoxConsumeIdentifier(src, end) ==
    IF LoxCurrentByteAvailable(src, end)
       /\ (IsAsciiAlphanumeric(LoxGetCurrentByte(src, end)) \/ LoxGetCurrentByte(src, end) = "_")
    THEN LoxConsumeIdentifier(src, end + 1)
    ELSE end

LoxIsCurrentByteUnrecognized(src, end) ==
    LET b == LoxGetCurrentByte(src, end)
    IN CASE b \in {"(", ")", "{", "}", ",", ".", "-", "+", ";", "*", "!", "=",
                   "<", ">", "/", "\""} -> TRUE
         [] IsAsciiAlphanumeric(b) \/ IsAsciiWhitespace(b) \/ b = "_" -> FALSE
         [] OTHER -> TRUE

RECURSIVE LoxConsumeUnrecognizedLexeme(_, _)
LoxConsumeUnrecognizedLexeme(src, end) ==
    IF LoxCurrentByteAvailable(src, end) /\ LoxIsCurrentByteUnrecognized(src, end)
    THEN LoxConsumeUnrecognizedLexeme(src, end + 1)
    ELSE end

\* The for loop of the historical calculate_lexeme_position over the
\* graphemes of the whole source (single bytes: the texts explored are ASCII
\* without "\r"); i is the byte offset of the grapheme.
RECURSIVE LoxPositionLoop(_, _, _, _, _)
LoxPositionLoop(src, i, start, row_number, column_number) ==
    IF i >= Len(src) \/ i = start
    THEN [line_number |-> row_number, column_number |-> column_number]
    ELSE IF src[i + 1] = "\n"
    THEN LoxPositionLoop(src, i + 1, start, row_number + 1, 1 + 1)
    ELSE LoxPositionLoop(src, i + 1, start, row_number, column_number + 1)

LoxCalculateLexemePosition(src, start) == LoxPositionLoop(src, 0, start, 1, 1)

\* The historical Lexer::error: the position, then consume_current_byte
\* (whether or not a byte is left), then the LexerError. Gives the new
\* lexeme_end and the error. A LexerErrorKind is a record of its name, with
\* the lexeme it owns for Unrecognized(String).
LoxError(src, start, end, kind) ==
    LET pos == LoxCalculateLexemePosition(src, start)
    IN [end |-> end + 1,
        error |-> [tag |-> "Err", kind |-> kind,
                   line_number |-> pos.line_number, column_number |-> pos.column_number]]

\* The while loop of the historical consume_string_literal.
RECURSIVE LoxStringLiteralLoop(_, _)
LoxStringLiteralLoop(src, end) ==
    IF LoxCurrentByteAvailable(src, end)
    THEN IF LoxGetCurrentByte(src, end) = "\"" THEN [closed |-> TRUE, end |-> end + 1]
         ELSE LoxStringLiteralLoop(src, end + 1)
    ELSE [closed |-> FALSE, end |-> end]

LoxConsumeStringLiteral(src, start, end) ==
    LET r == LoxStringLiteralLoop(src, end)
    IN IF r.closed THEN [ok |-> TRUE, end |-> r.end]
       ELSE LET e == LoxError(src, start, r.end, [name |-> "UnterminatedStringLiteral"])
            IN [ok |-> FALSE, end |-> e.end, error |-> e.error]

LoxConsumeNumberLiteral(src, start, end) ==
    LET e1 == LoxConsumeDigits(src, end)
    IN IF ~LoxCurrentByteAvailable(src, e1) THEN [ok |-> TRUE, end |-> e1]
       ELSE IF LoxGetCurrentByte(src, e1) = "."
       THEN IF ~LoxNextByteAvailable(src, e1) \/ ~IsAsciiDigit(LoxGetNextByte(src, e1))
            THEN LET e == LoxError(src, start, e1, [name |-> "NumberTrailingDot"])
                 IN [ok |-> FALSE, end |-> e.end, error |-> e.error]
            ELSE [ok |-> TRUE, end |-> LoxConsumeDigits(src, e1 + 1)]
       ELSE [ok |-> TRUE, end |-> e1]

\* The kind of the one-byte punctuation arms of the historical match.
LoxPunctuationKind(b) ==
    CASE b = "(" -> "LeftParentheses"
      [] b = ")" -> "RightParentheses"
      [] b = "{" -> "LeftBrace"
      [] b = "}" -> "RightBrace"
      [] b = "," -> "Comma"
      [] b = "." -> "Dot"
      [] b = "-" -> "Minus"
      [] b = "+" -> "Plus"
      [] b = ";" -> "Semicolon"
      [] b = "*" -> "Star"

\* Its arms for '!', '=', '<', '>'.
LoxOperatorKind(b, followedByEqual) ==
    CASE b = "!" -> IF followedByEqual THEN "BangEqual" ELSE "Bang"
      [] b = "=" -> IF followedByEqual THEN "EqualEqual" ELSE "Equal"
      [] b = "<" -> IF followedByEqual THEN "LessEqual" ELSE "Less"
      [] b = ">" -> IF followedByEqual THEN "GreaterEqual" ELSE "Greater"

\* The guard of its two-byte arms.
LoxFollowedBy(src, end, b) ==
    LoxCurrentByteAvailable(src, end) /\ LoxGetCurrentByte(src, end) = b

\* LoxStringLiteralLexeme without the slicing: the quotes stay in the lexeme.
LoxStringLiteralLexemeWithQuotes(src, start, end) == LoxGetCurrentLexeme(src, start, end)

\* &self.source[self.lexeme_start + 1..self.lexeme_end - 1]
LoxStringLiteralLexeme(src, start, end) == SubSeq(src, start + 2, end - 1)

\* What one call of the historical lexer leaves behind and returns.
LoxOutcome(start, end, eof, res) ==
    [lexeme_start |-> start, lexeme_end |-> end, end_of_file_emitted |-> eof, res |-> res]

\* The historical next_token. An Err of the recursive call (comment and
\* whitespace arms) is passed on by `?`, which is what returning the inner
\* outcome does.
RECURSIVE LoxNextToken(_, _, _, _)
LoxNextToken(src, start0, end0, eof) ==
    IF ~LoxCurrentByteAvailable(src, end0)
    THEN LoxOutcome(start0, end0, TRUE, OkItem(LoxEndOfFileToken))
    ELSE
      LET start == end0
          previous_byte == LoxGetCurrentByte(src, end0)
          end == end0 + 1
      IN CASE previous_byte \in {"(", ")", "{", "}", ",", ".", "-", "+", ";", "*"} ->
                LoxOutcome(start, end, eof,
                           OkItem(LoxGetCurrentToken(src, start, end,
                                                     LoxPunctuationKind(previous_byte))))
           [] previous_byte \in {"!", "=", "<", ">"} ->
                IF LoxFollowedBy(src, end, "=")
                THEN LoxOutcome(start, end + 1, eof,
                                OkItem(LoxGetCurrentToken(src, start, end + 1,
                                                          LoxOperatorKind(previous_byte, TRUE))))
                ELSE LoxOutcome(start, end, eof,
                                OkItem(LoxGetCurrentToken(src, start, end,
                                                          LoxOperatorKind(previous_byte, FALSE))))
           [] previous_byte = "/" ->
                IF LoxFollowedBy(src, end, "/")
                THEN LoxNextToken(src, start, LoxConsumeCommentLine(src, end), eof)
                ELSE LoxOutcome(start, end, eof,
                                OkItem(LoxGetCurrentToken(src, start, end, "Slash")))
           [] previous_byte = "\"" ->
                LET r == LoxConsumeStringLiteral(src, start, end)
                IN IF r.ok
                   THEN LoxOutcome(start, r.end, eof,
                                   OkItem(LoxToken("String",
                                                   LoxStringLiteralLexeme(src, start, r.end))))
                   ELSE LoxOutcome(start, r.end, eof, r.error)
           [] IsAsciiDigit(previous_byte) ->
                LET r == LoxConsumeNumberLiteral(src, start, end)
                IN IF r.ok
                   THEN LoxOutcome(start, r.end, eof,
                                   OkItem(LoxGetCurrentToken(src, start, r.end, "Number")))
                   ELSE LoxOutcome(start, r.end, eof, r.error)
           [] IsAsciiAlphabetic(previous_byte) \/ previous_byte = "_" ->
                LET e == LoxConsumeIdentifier(src, end)
                IN LoxOutcome(start, e, eof,
                              OkItem(LoxGetCurrentToken(src, start, e,
                                         LoxParseKeyword(LoxGetCurrentLexeme(src, start, e)))))
           [] IsAsciiWhitespace(previous_byte) ->
                LoxNextToken(src, start, LoxConsumeWhitespace(src, end), eof)
           [] OTHER ->
                LET run == LoxConsumeUnrecognizedLexeme(src, end)
                    e == LoxError(src, start, run,
                                  [name |-> "Unrecognized",
                                   lexeme |-> LoxGetCurrentLexeme(src, start, run)])
                IN LoxOutcome(start, e.end, eof, e.error)

\* Longest source text handed to the historical lexer.
MaxLoxLen == 4

\* Source texts with numbers, dots, strings, comments, operators, words,
\* newlines and an unrecognized byte.
LoxSources == TextsOver({"@", "1", ".", "\"", "/", "\n", "=", "a"}, MaxLoxLen)

\* lox::Lexer::new; the historical lexer has no line_number, which stays 1.
InitLox == LexerNew(LoxSources) /\ NoParser

\* A direct call of the historical next_token.
LoxCallNextToken ==
    /\ CountPoll
    /\ LET o == LoxNextToken(source, lexeme_start, lexeme_end, end_of_file_emitted)
       IN /\ lexeme_start' = o.lexeme_start
          /\ lexeme_end' = o.lexeme_end
          /\ end_of_file_emitted' = o.end_of_file_emitted
          /\ result' = o.res
          /\ yielded' = Append(yielded, o.res)
    /\ UNCHANGED <<source, line_number, parserVars>>

\* The historical Iterator::next once the EndOfFile token has been emitted.
LoxIteratorNextNone ==
    /\ end_of_file_emitted
    /\ CountPoll
    /\ result' = None
    /\ UNCHANGED <<source, lexeme_start, lexeme_end, line_number, end_of_file_emitted, yielded>>
    /\ UNCHANGED parserVars

\* The historical Iterator::next before that.
LoxIteratorNextSome ==
    /\ ~end_of_file_emitted
    /\ LoxCallNextToken

NextLox == LoxIteratorNextNone \/ LoxIteratorNextSome \/ LoxCallNextToken

SpecLox == InitLox /\ [][NextLox]_vars

----------------------------------------------------------------------------
\* The NFA lexer (src/src/nfa.rs)

\* State::is_final
IsFinal(state) ==
    state \in {"LeftParentheses", "RightParentheses", "LeftBrace", "RightBrace", "Comma",
               "Dot", "Minus", "Plus", "Semicolon", "Asterisk", "Bang", "Equal", "Greater",
               "Less", "BangEqual", "EqualEqual", "GreaterEqual", "LessEqual",
               "StringLiteral"}

\* State::is_symbol_consumed
IsSymbolConsumed(state) ==
    state \in {"Start", "LeftParentheses", "RightParentheses", "LeftBrace", "RightBrace",
               "Comma", "Dot", "Minus", "Plus", "Semicolon", "Asterisk", "BangEqual",
               "EqualEqual", "GreaterEqual", "LessEqual", "CheckForBangEqual",
               "CheckForEqualEqual", "CheckForLessEqual", "CheckForGreaterEqual",
               "OpenQuote", "StringLiteral", "StringBody", "NewLine"}

\* State::as_token_kind: the kind named like the state, Unrecognized for the
\* states that are not final.
AsTokenKind(state) == IF IsFinal(state) THEN state ELSE "Unrecognized"

\* The arms (Start, symbol) of transition.
TransitionFromStart(symbol) ==
    CASE symbol = "(" -> "LeftParentheses"
      [] symbol = ")" -> "RightParentheses"
      [] symbol = "{" -> "LeftBrace"
      [] symbol = "}" -> "RightBrace"
      [] symbol = "," -> "Comma"
      [] symbol = "." -> "Dot"
      [] symbol = "-" -> "Minus"
      [] symbol = "+" -> "Plus"
      [] symbol = ";" -> "Semicolon"
      [] symbol = "*" -> "Asterisk"
      [] symbol = "\n" -> "NewLine"
      [] symbol = "!" -> "CheckForBangEqual"
      [] symbol = "=" -> "CheckForEqualEqual"
      [] symbol = "<" -> "CheckForLessEqual"
      [] symbol = ">" -> "CheckForGreaterEqual"
      [] symbol = "\"" -> "OpenQuote"
      [] OTHER -> "Start"

\* transition(state, symbol)
Transition(state, symbol) ==
    CASE state = "Start" -> TransitionFromStart(symbol)
      [] state = "CheckForBangEqual" -> IF symbol = "=" THEN "BangEqual" ELSE "Bang"
      [] state = "CheckForEqualEqual" -> IF symbol = "=" THEN "EqualEqual" ELSE "Equal"
      [] state = "CheckForGreaterEqual" -> IF symbol = "=" THEN "GreaterEqual" ELSE "Greater"
      [] state = "CheckForLessEqual" -> IF symbol = "=" THEN "LessEqual" ELSE "Less"
      [] state \in {"StringBody", "OpenQuote"} ->
            IF symbol = "\"" THEN "StringLiteral" ELSE "StringBody"
      [] OTHER -> state

\* Token::new(kind, lexeme, line, column) of src/src/token.rs.
NfaToken(kind, lexeme, line, column) ==
    [kind |-> kind, lexeme |-> lexeme, line |-> line, column |-> column]

\* The variables the closure of lex captures, and what a call returns.
NfaOutcome(start, end, line, column, state, item) ==
    [lexeme_start |-> start, lexeme_end |-> end, line |-> line, column |-> column,
     state |-> state, item |-> item]

\* One call of the closure of lex: the loop up to `?` (no byte is left: None)
\* or to the return of a token.
RECURSIVE NfaNext(_, _, _, _, _, _)
NfaNext(src, start, end, line, column, state) ==
    IF end >= Len(src) THEN NfaOutcome(start, end, line, column, state, None)
    ELSE LET new_state == Transition(state, src[end + 1])
             new_end == IF IsSymbolConsumed(new_state) THEN end + 1 ELSE end
         IN IF new_state = "NewLine"
            THEN NfaNext(src, new_end, new_end, line + 1, 0, "Start")
            ELSE IF IsFinal(new_state)
            THEN LET lexeme == SubSeq(src, start + 1, new_end)
                 IN NfaOutcome(new_end, new_end, line, column + Len(lexeme), "Start",
                               NfaToken(AsTokenKind(new_state), lexeme, line, column))
            ELSE NfaNext(src, start, new_end, line, column, new_state)

\* for token in lex(source): every token up to the first None, and the
\* closure's variables at that point.
RECURSIVE NfaForEach(_, _, _)
NfaForEach(src, o, items) ==
    IF o.item = None THEN [last |-> o, items |-> items]
    ELSE NfaForEach(src,
                    NfaNext(src, o.lexeme_start, o.lexeme_end, o.line, o.column, o.state),
                    Append(items, o.item))

\* lex(source) iterated to its end, from the initial values of lines 118-122.
Lex(src) == NfaForEach(src, NfaNext(src, 0, 0, 1, 0, "Start"), <<>>)

\* Longest source text handed to the NFA lexer.
MaxNfaLen == 3

\* Source texts of the bytes the automaton has token states for, and newline.
NfaSources ==
    TextsOver({"(", ")", "{", "}", ",", ".", "-", "+", ";", "*", "!", "=", "<", ">", "\n"},
              MaxNfaLen)

InitNfa == LexerNew(NfaSources) /\ NoParser

\* The loop of test_lex: lex(source) is iterated until it returns None; the
\* tokens it yielded are kept in yielded.
TestLex ==
    /\ result = NoCall
    /\ \E r \in {Lex(source)} :
          /\ yielded' = r.items
          /\ lexeme_start' = r.last.lexeme_start
          /\ lexeme_end' = r.last.lexeme_end
          /\ line_number' = r.last.line
    /\ result' = None
    /\ UNCHANGED <<source, end_of_file_emitted, polls, parserVars>>

SpecNfa == InitNfa /\ [][TestLex]_vars

----------------------------------------------------------------------------
\* The visitor-pattern printer (abstract_syntax_tree_visitor_pattern)

\* The for loop of the visitor's parenthesizes: a space and the printed text of
\* each operand.
RECURSIVE VisitorPushOperands(_)
VisitorPushOperands(printed) ==
    IF printed = <<>> THEN <<>>
    ELSE <<" ">> \o Head(printed) \o VisitorPushOperands(Tail(printed))

\* VisitorParenthesizes without the space in front of each operand.
VisitorParenthesizesNoSpace(name, printed) ==
    <<"(">> \o name
            \o SelectSeq(VisitorPushOperands(printed), LAMBDA c : c # " ")
            \o <<")">>

\* parenthesizes(name, expressions) of printer.rs; printed holds
\* AbstractSyntaxTreePrinter.print(expression) of each operand.
VisitorParenthesizes(name, printed) ==
    <<"(">> \o name \o VisitorPushOperands(printed) \o <<")">>

RECURSIVE PrinterPrint(_)

VisitBinaryExpression(expression) ==
    VisitorParenthesizes(expression.operator.lexeme,
                         <<PrinterPrint(expression.left_operand), PrinterPrint(expression.right_operand)>>)

VisitUnaryExpression(expression) ==
    VisitorParenthesizes(expression.operator.lexeme, <<PrinterPrint(expression.right_operand)>>)

VisitGroupingExpression(expression) ==
    VisitorParenthesizes(<<"g", "r", "o", "u", "p">>, <<PrinterPrint(expression.expression)>>)

VisitLiteralExpression(expression) == expression.token.lexeme

\* Expression::accept_visitor: one visit method per variant.
AcceptVisitor(expression) ==
    CASE expression.node = "Binary" -> VisitBinaryExpression(expression)
      [] expression.node = "Unary" -> VisitUnaryExpression(expression)
      [] expression.node = "Grouping" -> VisitGroupingExpression(expression)
      [] expression.node = "Literal" -> VisitLiteralExpression(expression)

\* AbstractSyntaxTreePrinter::print.
PrinterPrint(expression) == AcceptVisitor(expression)

\* Deepest nesting of the expression trees handed to the visitor printer.
MaxTreeDepth == 2

\* The literal tokens of the tree of test ast_print.
TreeLiterals ==
    {Token("Number", <<"1", "2", "3">>, 0), Token("Number", <<"4", "5", ".", "6", "7">>, 0)}

\* The trees whose operands are taken from `operands`, and the literals; the
\* operators are the - and the * of test ast_print.
TreesOver(operands) ==
    {Literal(t) : t \in TreeLiterals}
        \cup {Unary(Token("Minus", <<"-">>, 0), right) : right \in operands}
        \cup {Grouping(inner) : inner \in operands}
        \cup {Binary(left, Token("Star", <<"*">>, 0), right) :
                  left \in operands, right \in operands}

\* Every expression tree of depth at most n over these tokens.
RECURSIVE Trees(_)
Trees(n) == IF n = 0 THEN TreesOver({}) ELSE TreesOver(Trees(n - 1))

\* An expression built by hand, as in test ast_print, and not yet printed.
InitVisitor ==
    /\ LexerNew({<<>>})
    /\ tokens = <<>>
    /\ current_token_index = 0
    /\ \E expression \in Trees(MaxTreeDepth) :
          parse_result = [tag |-> "Ok", expression |-> expression]
    /\ output = <<>>

\* let output = AbstractSyntaxTreePrinter.print(&expression);
AstPrint ==
    /\ output = <<>>
    /\ output' = PrinterPrint(parse_result.expression)
    /\ UNCHANGED <<tokens, current_token_index, parse_result, lexerVars>>

SpecVisitor == InitVisitor /\ [][AstPrint]_vars

\* Most tokens before the EndOfFile token in a list handed to the driver loop.
MaxDriverTokens == 2

InitDriver == LexerNew({<<>>}) /\ ParserNew(ParserKinds, MaxDriverTokens)

\* The loop of test_parser keeps running: a round that can change the state is
\* eventually taken.
SpecDriver == InitDriver /\ [][TestParserRound]_vars /\ WF_vars(TestParserRound)

\* Most tokens before the EndOfFile token in a list over PrimaryKinds.
MaxPrimaryTokens == 3

\* The kinds primary_rule accepts, and kinds it does not.
PrimaryKinds ==
    {"Number", "String", "True", "False", "Nil", "LeftParentheses", "RightParentheses",
     "Identifier", "Plus", "Star", "Minus", "Bang", "EqualEqual", "Less"}

InitPrimary == LexerNew({<<>>}) /\ ParserNew(PrimaryKinds, MaxPrimaryTokens)

SpecPrimary == InitPrimary /\ [][NextParser]_vars

----------------------------------------------------------------------------
\* Properties of the token stream

Last(s) == s[Len(s)]

IsItem(item) == item.tag \in {"Ok", "Err"}

IsEndOfFile(item) == item.tag = "Ok" /\ item.token.kind = "EndOfFile"

IsError(item, kind) == item.tag = "Err" /\ item.kind = kind

IsToken(item, kind) == item.tag = "Ok" /\ item.token.kind = kind

C2_EndOfFileRepeatable ==
    [][(end_of_file_emitted /\ yielded' # yielded) =>
          /\ IsEndOfFile(Last(yielded))
          /\ result' = OkItem([kind |-> "EndOfFile", lexeme |-> <<>>, line |-> Last(yielded).token.line])
          /\ yielded' = Append(yielded, result')
          /\ lexeme_start' = lexeme_start
          /\ lexeme_end' = lexeme_end
          /\ line_number' = line_number
          /\ end_of_file_emitted']_vars

\* C2 witness: next_token was called twice more after the first EndOfFile, on
\* a source with more than one line.
C2_Witness ==
    /\ Len(yielded) >= 3
    /\ IsEndOfFile(yielded[Len(yielded) - 2])
    /\ IsEndOfFile(yielded[Len(yielded) - 1])
    /\ IsEndOfFile(Last(yielded))
    /\ Last(yielded).token.line = 2
    /\ lexeme_end = Len(source)

\* The last call returned an item other than EndOfFile, so lexeme_start is
\* the offset of the lexeme that item was scanned from, and that lexeme
\* starts with a byte of `firstBytes`.
LastLexemeStartsWith(firstBytes) ==
    /\ IsItem(result)
    /\ ~IsEndOfFile(result)
    /\ source[lexeme_start + 1] \in firstBytes

\* The byte at offset i of the source is b.
ByteAt(i, b) == i < Len(source) /\ source[i + 1] = b

\* C3: a lexical error of any of the three kinds does not end the stream: it
\* is the item that call returned, its lexeme is the bytes from lexeme_start
\* to lexeme_end, and the next call scans on from lexeme_end, the byte right
\* after that lexeme (its lexeme starts there unless that byte is skipped as
\* whitespace or as a comment).
C3_ErrorDoesNotEndStream ==
    [][(result.tag = "Err" /\ yielded' # yielded) =>
          /\ result.kind \in {"Unrecognized", "UnterminatedStringLiteral", "NumberTrailingDot"}
          /\ Last(yielded) = result
          /\ ~end_of_file_emitted
          /\ result.token.lexeme # <<>>
          /\ lexeme_end = lexeme_start + Len(result.token.lexeme)
          /\ result.token.lexeme = SubSeq(source, lexeme_start + 1, lexeme_end)
          /\ IsItem(result')
          /\ IF lexeme_end = Len(source)
             THEN IsEndOfFile(result') /\ lexeme_end' = lexeme_end
             ELSE /\ lexeme_end' > lexeme_end
                  /\ lexeme_start' >= lexeme_end
                  /\ source[lexeme_end + 1] \notin {" ", "\n", "/"} => lexeme_start' = lexeme_end]_vars

\* C3 witness: the source 1." gave NumberTrailingDot, then the Dot token, then
\* UnterminatedStringLiteral: two errors, and items after each.
C3_Witness ==
    /\ Len(yielded) = 4
    /\ IsError(yielded[1], "NumberTrailingDot")
    /\ IsError(yielded[3], "UnterminatedStringLiteral")
    /\ IsEndOfFile(yielded[4])

\* C4: maximal munch. A lexeme that starts with one of ! = < > and is
\* followed at once by = is the two-byte token (BangEqual, EqualEqual,
\* LessEqual, GreaterEqual); followed by another byte, or by the end of the
\* source, it is the one-byte token and exactly one byte is consumed.
C4_MaximalMunch ==
    LastLexemeStartsWith({"!", "=", "<", ">"}) =>
        LET b == source[lexeme_start + 1]
            two == CASE b = "!" -> "BangEqual" [] b = "=" -> "EqualEqual"
                     [] b = "<" -> "LessEqual" [] b = ">" -> "GreaterEqual"
            one == CASE b = "!" -> "Bang" [] b = "=" -> "Equal"
                     [] b = "<" -> "Less" [] b = ">" -> "Greater"
        IN IF ByteAt(lexeme_start + 1, "=")
           THEN /\ result = [tag |-> "Ok", token |-> [kind |-> two, lexeme |-> <<b, "=">>, line |-> line_number]]
                /\ lexeme_end = lexeme_start + 2
           ELSE /\ result = [tag |-> "Ok", token |-> [kind |-> one, lexeme |-> <<b>>, line |-> line_number]]
                /\ lexeme_end = lexeme_start + 1

\* C4 witness: the source !== gave BangEqual and then Equal.
C4_Witness ==
    /\ source = <<"!", "=", "=">>
    /\ Len(yielded) = 2
    /\ IsToken(yielded[1], "BangEqual")
    /\ IsToken(yielded[2], "Equal")
    /\ lexeme_start = 2

\* A '"' at an offset after `from`.
QuoteAfter(from) == \E q \in from + 1 .. Len(source) - 1 : source[q + 1] = "\""

\* C5: a string literal whose opening quote has no closing quote before the
\* end of the source gives one UnterminatedStringLiteral error, reaching to
\* the end of the source, and the item yielded after it is EndOfFile.
C5_UnterminatedString ==
    /\ (LastLexemeStartsWith({"\""}) /\ ~QuoteAfter(lexeme_start)) =>
          /\ IsError(result, "UnterminatedStringLiteral")
          /\ lexeme_end = Len(source)
    /\ \A i \in 1 .. Len(yielded) :
          IsError(yielded[i], "UnterminatedStringLiteral") =>
             /\ \A j \in 1 .. Len(yielded) :
                   IsError(yielded[j], "UnterminatedStringLiteral") => j = i
             /\ i < Len(yielded) => IsEndOfFile(yielded[i + 1])

\* C5 witness: a token, then the error for "a with no closing quote, then
\* EndOfFile.
C5_Witness ==
    /\ Len(yielded) = 3
    /\ IsToken(yielded[1], "Plus")
    /\ IsError(yielded[2], "UnterminatedStringLiteral")
    /\ yielded[2].token.lexeme = <<"\"", "a">>
    /\ IsEndOfFile(yielded[3])

\* The offset at which the run of ASCII digits starting at offset p ends.
DigitRunEnd(p) ==
    CHOOSE e \in p .. Len(source) :
        /\ \A k \in p .. e - 1 : IsAsciiDigit(source[k + 1])
        /\ e = Len(source) \/ ~IsAsciiDigit(source[e + 1])

\* C6: a lexeme that starts with a digit is: the Number token digits.digits
\* when the digit run is followed by a dot and a digit; the NumberTrailingDot
\* error when it is followed by a dot and no digit; the Number token of just
\* the digits otherwise.
C6_NumberLiterals ==
    LastLexemeStartsWith(Digits) =>
        LET e1 == DigitRunEnd(lexeme_start)
        IN IF ByteAt(e1, ".")
           THEN IF e1 + 1 < Len(source) /\ IsAsciiDigit(source[e1 + 2])
                THEN LET e2 == DigitRunEnd(e1 + 1)
                     IN /\ result = [tag |-> "Ok", token |-> [kind |-> "Number",
                                     lexeme |-> SubSeq(source, lexeme_start + 1, e2),
                                     line |-> line_number]]
                        /\ lexeme_end = e2
                ELSE IsError(result, "NumberTrailingDot")
           ELSE /\ result = [tag |-> "Ok", token |-> [kind |-> "Number",
                             lexeme |-> SubSeq(source, lexeme_start + 1, e1),
                             line |-> line_number]]
                /\ lexeme_end = e1

\* C6 witness: the source 1.1 gave the single Number token 1.1.
C6_Witness ==
    /\ IsToken(result, "Number")
    /\ result.token.lexeme = <<"1", ".", "1">>
    /\ Len(yielded) = 1

\* C7 (as claimed): the item after a NumberTrailingDot error is never the Dot
\* token of the offending dot.
C7_NoDotTokenAfterTrailingDot ==
    \A i \in 1 .. Len(yielded) - 1 :
        IsError(yielded[i], "NumberTrailingDot") => ~IsToken(yielded[i + 1], "Dot")

\* The bytes that start a token rule or are skipped: punctuation, whitespace,
\* ASCII alphanumerics, '_' and '"'.
RecognizedBytes ==
    {"(", ")", "{", "}", ",", ".", "-", "+", ";", "*", "!", "=", "<", ">", "/", "\"", "_",
     " ", "\t", "\n", "\f", "\r"} \cup Letters \cup Digits

\* C8 (as claimed): the lexeme of an Unrecognized error is a maximal run of
\* bytes none of which is a recognized byte.
C8_UnrecognizedRunStopsAtRecognized ==
    IsError(result, "Unrecognized") =>
        /\ \A k \in 1 .. Len(result.token.lexeme) : result.token.lexeme[k] \notin RecognizedBytes
        /\ lexeme_end = Len(source) \/ source[lexeme_end + 1] \in RecognizedBytes

\* C9 (as claimed): the lexeme of an error token is the run consumed up to
\* and including the failure: digits and the offending dot, the opening
\* quote to the end of the source, the whole unrecognized run.
C9_ErrorLexemeIncludesFailure ==
    /\ IsError(result, "NumberTrailingDot") =>
          /\ Last(result.token.lexeme) = "."
          /\ \A k \in 1 .. Len(result.token.lexeme) - 1 : IsAsciiDigit(result.token.lexeme[k])
    /\ IsError(result, "UnterminatedStringLiteral") =>
          result.token.lexeme = SubSeq(source, lexeme_start + 1, Len(source))
    /\ IsError(result, "Unrecognized") =>
          result.token.lexeme = SubSeq(source, lexeme_start + 1, lexeme_end)

\* C10: a string literal with a closing quote gives one String token whose
\* lexeme is the bytes strictly between the opening quote and the next quote,
\* and scanning resumes at the byte after the closing quote.
C10_TerminatedString ==
    (LastLexemeStartsWith({"\""}) /\ QuoteAfter(lexeme_start)) =>
        LET close == CHOOSE q \in lexeme_start + 1 .. Len(source) - 1 :
                        /\ source[q + 1] = "\""
                        /\ \A k \in lexeme_start + 1 .. q - 1 : source[k + 1] # "\""
        IN /\ IsToken(result, "String")
           /\ result.token.lexeme = SubSeq(source, lexeme_start + 2, close)
           /\ Len(result.token.lexeme) = close - lexeme_start - 1
           /\ lexeme_end = close + 1

\* C10 witness: the source "a" gave the String token a; the empty literal ""
\* followed by + gave the empty lexeme and then Plus.
C10_Witness ==
    \/ /\ source = <<"\"", "a", "\"">>
       /\ IsToken(result, "String")
       /\ result.token.lexeme = <<"a">>
    \/ /\ source = <<"\"", "\"", "+">>
       /\ Len(yielded) = 2
       /\ IsToken(yielded[1], "String")
       /\ yielded[1].token.lexeme = <<>>
       /\ IsToken(yielded[2], "Plus")

\* The offset of the first newline at or after offset p, Len(source) if none.
NextNewline(p) ==
    CHOOSE e \in p .. Len(source) :
        /\ \A k \in p .. e - 1 : source[k + 1] # "\n"
        /\ e = Len(source) \/ source[e + 1] = "\n"

\* The offset of the first byte at or after offset p that is neither
\* whitespace nor part of a comment (// up to the next newline).
RECURSIVE SkipBlanks(_)
SkipBlanks(p) ==
    IF p >= Len(source) THEN Len(source)
    ELSE IF source[p + 1] \in {" ", "\t", "\n", "\f", "\r"} THEN SkipBlanks(p + 1)
    ELSE IF ByteAt(p, "/") /\ ByteAt(p + 1, "/") THEN SkipBlanks(NextNewline(p + 2))
    ELSE p

\* The comment rule at the offsets where a call scans: a call skips
\* whitespace and every comment, from // to the byte before the next newline
\* or to the end of the source; the item it returns is EndOfFile when nothing
\* else is left, and otherwise is scanned from the first byte after them; a
\* '/' found there is not followed by '/' and gives the Slash token.
CommentRuleWhereScanned ==
    [][(yielded' # yielded /\ ~end_of_file_emitted) =>
          LET t == SkipBlanks(lexeme_end)
          IN IF t = Len(source)
             THEN IsEndOfFile(result')
             ELSE /\ ~IsEndOfFile(result')
                  /\ lexeme_start' = t
                  /\ source[t + 1] = "/" =>
                        /\ IsToken(result', "Slash")
                        /\ result'.token.lexeme = <<"/">>
                        /\ lexeme_end' = t + 1]_vars

\* The offset of the first // of the source, Len(source) if there is none.
FirstComment ==
    CHOOSE p \in 0 .. Len(source) :
        /\ \A k \in 0 .. p - 1 : ~(ByteAt(k, "/") /\ ByteAt(k + 1, "/"))
        /\ p = Len(source) \/ (ByteAt(p, "/") /\ ByteAt(p + 1, "/"))

\* C11 (as claimed): comments never produce a token. The first // of a
\* source with no '"' before it starts a comment, which runs to the byte
\* before the next newline or to the end of the source; no token and no
\* error has a lexeme that holds a byte of it, and a lexeme that starts with
\* '/' is the Slash token of a '/' not followed by '/'.
C11_CommentsYieldNothing ==
    /\ (/\ IsItem(result)
        /\ ~IsEndOfFile(result)
        /\ FirstComment < Len(source)
        /\ \A k \in 0 .. FirstComment - 1 : source[k + 1] # "\"") =>
          \/ lexeme_end <= FirstComment
          \/ lexeme_start >= NextNewline(FirstComment + 2)
    /\ LastLexemeStartsWith({"/"}) =>
          /\ IsToken(result, "Slash")
          /\ result.token.lexeme = <<"/">>
          /\ ~ByteAt(lexeme_start + 1, "/")

\* The offset at which the run of ASCII alphanumerics and '_' starting at
\* offset p ends.
WordRunEnd(p) ==
    CHOOSE e \in p .. Len(source) :
        /\ \A k \in p .. e - 1 : source[k + 1] \in Letters \cup Digits \cup {"_"}
        /\ e = Len(source) \/ source[e + 1] \notin Letters \cup Digits \cup {"_"}

\* C12: a lexeme that starts with an ASCII letter or '_' is the maximal run
\* of ASCII alphanumerics and '_'; its kind is the keyword kind exactly when
\* the whole run is one of the 16 reserved words, and Identifier otherwise.
C12_KeywordOrIdentifier ==
    LastLexemeStartsWith(Letters \cup {"_"}) =>
        LET e == WordRunEnd(lexeme_start)
            word == SubSeq(source, lexeme_start + 1, e)
        IN /\ result.tag = "Ok"
           /\ result.token.lexeme = word
           /\ lexeme_end = e
           /\ \A w \in ReservedWords : (word = w[1]) <=> (result.token.kind = w[2])
           /\ (\A w \in ReservedWords : word # w[1]) <=> (result.token.kind = "Identifier")

\* C12 witness: nil_ gave one Identifier, and the second word of `for for`
\* gave the keyword kind For.
C12_Witness ==
    \/ /\ source = <<"n", "i", "l", "_">>
       /\ result = [tag |-> "Ok", token |-> [kind |-> "Identifier", lexeme |-> source, line |-> 1]]
    \/ /\ source = <<"f", "o", "r", " ", "f", "o", "r">>
       /\ lexeme_start = 4
       /\ IsToken(result, "For")

\* The bytes of the one- and two-byte operators and punctuation, and the
\* ASCII whitespace bytes.
PunctuationBytes ==
    {"(", ")", "{", "}", ",", ".", "-", "+", ";", "*", "!", "=", "<", ">", "/"}

WhitespaceBytes == {" ", "\t", "\n", "\f", "\r"}

\* The text s without its whitespace and without its comments (each from //
\* to the byte before the next newline, or to the end of s).
RECURSIVE StripBlanks(_)
StripBlanks(s) ==
    IF s = <<>> THEN <<>>
    ELSE IF s[1] \in WhitespaceBytes THEN StripBlanks(Tail(s))
    ELSE IF Len(s) >= 2 /\ s[1] = "/" /\ s[2] = "/"
         THEN LET nl == FirstNewline(s, 1)
              IN IF nl = 0 THEN <<>> ELSE StripBlanks(SubSeq(s, nl, Len(s)))
    ELSE <<s[1]>> \o StripBlanks(Tail(s))

\* The lexemes of the items, in order, joined.
RECURSIVE JoinLexemes(_)
JoinLexemes(items) ==
    IF items = <<>> THEN <<>>
    ELSE items[1].token.lexeme \o JoinLexemes(Tail(items))

\* C13: round trip. For a source made only of operators, punctuation and
\* ASCII whitespace no item is an error, and the lexemes of the items yielded
\* so far, joined in order, are the scanned part of the source without its
\* whitespace and comments; once EndOfFile is yielded, that is the whole source.
C13_RoundTrip ==
    (\A k \in 1 .. Len(source) : source[k] \in PunctuationBytes \cup WhitespaceBytes) =>
        /\ \A i \in 1 .. Len(yielded) : yielded[i].tag = "Ok"
        /\ JoinLexemes(yielded) = StripBlanks(SubSeq(source, 1, lexeme_end))
        /\ end_of_file_emitted => JoinLexemes(yielded) = StripBlanks(source)

\* C13 witness: =//<newline>!= was lexed to its end: Equal, BangEqual, EndOfFile.
C13_Witness ==
    /\ source = <<"=", "/", "/", "\n", "!">>
    /\ end_of_file_emitted
    /\ Len(yielded) = 3
    /\ JoinLexemes(yielded) = <<"=", "!">>

\* C14: every token of kind EndOfFile that the lexer returns has the empty
\* lexeme, and no token returned as Ok has the kind Unrecognized: that kind
\* appears only on the token carried by an error.
C14_EndOfFileAndUnrecognizedKinds ==
    \A item \in {yielded[i] : i \in 1 .. Len(yielded)} \cup {result} :
        /\ IsEndOfFile(item) => item.token.lexeme = <<>>
        /\ item.tag = "Ok" => item.token.kind # "Unrecognized"
        /\ item.tag = "Err" /\ item.kind = "Unrecognized" =>
               item.token.kind = "Unrecognized"

\* C14 witness: @1 was iterated to its end: an Unrecognized error, a Number
\* token and the EndOfFile token.
C14_Witness ==
    /\ source = <<"@", "1">>
    /\ Len(yielded) = 3
    /\ IsError(yielded[1], "Unrecognized")
    /\ IsToken(yielded[2], "Number")
    /\ IsEndOfFile(yielded[3])

----------------------------------------------------------------------------
\* Claims about the parser

\* The kinds of the tokens before the EndOfFile token, in order.
KindsOf(toks) == [i \in 1 .. Len(toks) - 1 |-> toks[i].kind]

\* The binding level of a binary operator kind: 1 equality, 2 comparison,
\* 3 term, 4 factor; 0 for any other kind.
BinaryLevel(kind) ==
    CASE kind \in {"BangEqual", "EqualEqual"} -> 1
      [] kind \in {"Less", "LessEqual", "Greater", "GreaterEqual"} -> 2
      [] kind \in {"Plus", "Minus"} -> 3
      [] kind \in {"Star", "Slash"} -> 4
      [] OTHER -> 0

\* The node e and every node below it, parents first.
RECURSIVE SubExpressions(_)
SubExpressions(e) ==
    <<e>> \o
    CASE e.node = "Binary" ->
            SubExpressions(e.left_operand) \o SubExpressions(e.right_operand)
      [] e.node = "Unary" -> SubExpressions(e.right_operand)
      [] e.node = "Grouping" -> SubExpressions(e.expression)
      [] OTHER -> <<>>

IsBinaryOfLevel(e, levels) ==
    e.node = "Binary" /\ BinaryLevel(e.operator.kind) \in levels

\* The step is a call of a grammar rule from the start of the token list.
ParsedFromStart == current_token_index = 0 /\ parse_result' # NoCall

\* C15: left associativity. When the token list is a op1 b op2 c with op1 and
\* op2 binary operators of one level, parsing it from its start returns
\* Binary(Binary(a, op1, b), op2, c) and leaves the cursor on EndOfFile; and in
\* no tree the parser returns is the right operand of a Binary node a Binary
\* node of the same level.
C15_LeftAssociative ==
    [][/\ ( /\ ParsedFromStart
            /\ Len(tokens) = 6
            /\ \A i \in {1, 3, 5} : tokens[i].kind = "Number"
            /\ BinaryLevel(tokens[2].kind) # 0
            /\ BinaryLevel(tokens[2].kind) = BinaryLevel(tokens[4].kind) )
          => /\ parse_result' =
                  [tag |-> "Ok",
                   expression |->
                       Binary(Binary(Literal(tokens[1]), tokens[2], Literal(tokens[3])),
                              tokens[4], Literal(tokens[5]))]
             /\ current_token_index' = 5
       /\ parse_result'.tag = "Ok" =>
             LET nodes == SubExpressions(parse_result'.expression)
             IN \A i \in 1 .. Len(nodes) :
                    nodes[i].node = "Binary" =>
                        ~IsBinaryOfLevel(nodes[i].right_operand,
                                         {BinaryLevel(nodes[i].operator.kind)})
      ]_vars

\* C15 witness: 1 - 2 - 3 was parsed to Binary(Binary(1, -, 2), -, 3).
C15_Witness ==
    /\ KindsOf(tokens) = <<"Number", "Minus", "Number", "Minus", "Number">>
    /\ current_token_index = 5
    /\ parse_result.tag = "Ok"
    /\ parse_result.expression.node = "Binary"
    /\ parse_result.expression.operator = tokens[4]
    /\ parse_result.expression.right_operand = Literal(tokens[5])
    /\ parse_result.expression.left_operand =
           Binary(Literal(tokens[1]), tokens[2], Literal(tokens[3]))

\* C16: precedence. In every tree the parser returns, the right operand of a
\* Binary node of level L is no Binary node of level L or looser and its left
\* operand is no Binary node looser than L (a Grouping node between them lifts
\* the restriction); and a op1 b op2 c with op2 tighter than op1, parsed from
\* its start, is Binary(a, op1, Binary(b, op2, c)), as 1 + 2 * 3 is.
C16_Precedence ==
    [][/\ parse_result'.tag = "Ok" =>
             LET nodes == SubExpressions(parse_result'.expression)
             IN \A i \in 1 .. Len(nodes) :
                    nodes[i].node = "Binary" =>
                        LET L == BinaryLevel(nodes[i].operator.kind)
                        IN /\ L \in 1 .. 4
                           /\ ~IsBinaryOfLevel(nodes[i].right_operand, 1 .. L)
                           /\ ~IsBinaryOfLevel(nodes[i].left_operand, 1 .. L - 1)
       /\ ( /\ ParsedFromStart
            /\ Len(tokens) = 6
            /\ \A i \in {1, 3, 5} : tokens[i].kind = "Number"
            /\ BinaryLevel(tokens[2].kind) # 0
            /\ BinaryLevel(tokens[4].kind) > BinaryLevel(tokens[2].kind) )
          => /\ parse_result' =
                  [tag |-> "Ok",
                   expression |->
                       Binary(Literal(tokens[1]), tokens[2],
                              Binary(Literal(tokens[3]), tokens[4], Literal(tokens[5])))]
             /\ current_token_index' = 5
      ]_vars

\* C16 witness: 1 + 2 * 3 was parsed to Binary(1, +, Binary(2, *, 3)).
C16_Witness ==
    /\ KindsOf(tokens) = <<"Number", "Plus", "Number", "Star", "Number">>
    /\ current_token_index = 5
    /\ parse_result.tag = "Ok"
    /\ parse_result.expression.node = "Binary"
    /\ parse_result.expression.operator = tokens[2]
    /\ parse_result.expression.left_operand = Literal(tokens[1])
    /\ parse_result.expression.right_operand =
           Binary(Literal(tokens[3]), tokens[4], Literal(tokens[5]))

\* Unary nodes for the operators toks[i] .. toks[n], outermost first, around
\* the literal toks[n + 1].
RECURSIVE NestedUnary(_, _, _)
NestedUnary(toks, i, n) ==
    IF i > n THEN Literal(toks[n + 1])
    ELSE Unary(toks[i], NestedUnary(toks, i + 1, n))

\* How many of the first tokens are prefix operators (! or -).
RECURSIVE PrefixOperatorCount(_, _)
PrefixOperatorCount(toks, i) ==
    IF i <= Len(toks) /\ toks[i].kind \in {"Bang", "Minus"}
    THEN PrefixOperatorCount(toks, i + 1)
    ELSE i - 1

\* C17: prefix operators. n operators ! or - followed by a number, parsed from
\* the start, give n nested Unary nodes in source order, outermost first; when
\* a binary operator and a second number follow, the nested Unary nodes are
\* the left operand of the Binary node; and in no tree the parser returns is
\* the operand of a Unary node a Binary node.
C17_PrefixOperators ==
    [][/\ ParsedFromStart =>
             LET n == PrefixOperatorCount(tokens, 1)
             IN /\ ( /\ n >= 1
                     /\ Len(tokens) = n + 2
                     /\ tokens[n + 1].kind = "Number" )
                   => /\ parse_result' =
                           [tag |-> "Ok", expression |-> NestedUnary(tokens, 1, n)]
                      /\ current_token_index' = n + 1
                /\ ( /\ n >= 1
                     /\ Len(tokens) = n + 4
                     /\ tokens[n + 1].kind = "Number"
                     /\ BinaryLevel(tokens[n + 2].kind) # 0
                     /\ tokens[n + 3].kind = "Number" )
                   => /\ parse_result' =
                           [tag |-> "Ok",
                            expression |-> Binary(NestedUnary(tokens, 1, n), tokens[n + 2],
                                                  Literal(tokens[n + 3]))]
                      /\ current_token_index' = n + 3
       /\ parse_result'.tag = "Ok" =>
             LET nodes == SubExpressions(parse_result'.expression)
             IN \A i \in 1 .. Len(nodes) :
                    nodes[i].node = "Unary" =>
                        /\ nodes[i].operator.kind \in {"Bang", "Minus"}
                        /\ nodes[i].right_operand.node # "Binary"
      ]_vars

\* C17 witness: - - 1 * 1 was parsed to Binary(Unary(-, Unary(-, 1)), *, 1).
C17_Witness ==
    /\ KindsOf(tokens) = <<"Minus", "Minus", "Number", "Star", "Number">>
    /\ current_token_index = 5
    /\ parse_result.tag = "Ok"
    /\ parse_result.expression.node = "Binary"
    /\ parse_result.expression.left_operand =
           Unary(tokens[1], Unary(tokens[2], Literal(tokens[3])))

\* The token list opens with ( and the n tokens of a complete expression:
\* a number (n = 1) or number, binary operator, number (n = 3).
OpensWithGroupOf(n) ==
    /\ Len(tokens) >= n + 2
    /\ tokens[1].kind = "LeftParentheses"
    /\ tokens[2].kind = "Number"
    /\ n = 3 => BinaryLevel(tokens[3].kind) # 0 /\ tokens[4].kind = "Number"

\* The tree of that complete expression.
GroupInner(n) ==
    IF n = 1 THEN Literal(tokens[2])
    ELSE Binary(Literal(tokens[2]), tokens[3], Literal(tokens[4]))

\* C18: grouping. When ( and a complete inner expression are followed by a token
\* that is neither ) nor a binary operator continuing the inner expression,
\* parsing from the start returns MissingRightParenthesis naming that token (the
\* EndOfFile token for ( 1 + 2) and the cursor stays on it; when they are
\* followed by ) and the list ends, it returns Grouping(inner) with the cursor
\* past the ). Every MissingRightParenthesis error names the token under the
\* cursor.
C18_GroupingMismatch ==
    [][/\ ParsedFromStart =>
             \A n \in {1, 3} :
                 OpensWithGroupOf(n) =>
                     /\ ( /\ tokens[n + 2].kind # "RightParentheses"
                          /\ BinaryLevel(tokens[n + 2].kind) = 0 )
                        => /\ parse_result' =
                                [tag |-> "Err",
                                 error |-> [kind |-> "MissingRightParenthesis",
                                            token |-> tokens[n + 2]]]
                           /\ current_token_index' = n + 1
                     /\ ( /\ tokens[n + 2].kind = "RightParentheses"
                          /\ Len(tokens) = n + 3 )
                        => /\ parse_result' =
                                [tag |-> "Ok", expression |-> Grouping(GroupInner(n))]
                           /\ current_token_index' = n + 2
       /\ ( /\ parse_result'.tag = "Err"
            /\ parse_result'.error.kind = "MissingRightParenthesis" )
          => /\ parse_result'.error.token = tokens[current_token_index' + 1]
             /\ parse_result'.error.token.kind # "RightParentheses"
      ]_vars

\* C18 witness: ( 1 + 2 was parsed and MissingRightParenthesis names EndOfFile.
C18_Witness ==
    /\ KindsOf(tokens) = <<"LeftParentheses", "Number", "Plus", "Number">>
    /\ current_token_index = 4
    /\ parse_result.tag = "Err"
    /\ parse_result.error.kind = "MissingRightParenthesis"
    /\ parse_result.error.token.kind = "EndOfFile"

\* The kinds a primary expression starts with, and the prefix operators, which
\* unary_rule consumes before primary_rule is reached.
PrimaryStartKinds == {"Number", "String", "True", "False", "Nil", "LeftParentheses"}

PrefixOperatorKinds == {"Bang", "Minus"}

\* The returned error, if any, is ExpectedExpression naming the token at
\* 0-based position i, and the cursor is left on that token.
ExpectedExpressionAt(i) ==
    /\ parse_result' =
           [tag |-> "Err",
            error |-> [kind |-> "ExpectedExpression", token |-> tokens[i + 1]]]
    /\ current_token_index' = i

\* C19: when the parser reaches primary_rule on a token that is none of Number,
\* String, true, false, nil or ( (an identifier, ), a binary operator,
\* EndOfFile), it returns ExpectedExpression naming that token and does not
\* consume it: at the cursor where the call starts, after a binary operator
\* and after a prefix operator. Every ExpectedExpression error names the token
\* under the cursor, and that token starts no primary expression.
C19_ExpectedExpression ==
    [][/\ parse_result' # NoCall =>
             LET i == current_token_index
                 stops(k) == tokens[k + 1].kind \notin PrimaryStartKinds \cup PrefixOperatorKinds
             IN /\ stops(i) => ExpectedExpressionAt(i)
                /\ ( /\ Len(tokens) >= i + 2
                     /\ tokens[i + 1].kind \in PrefixOperatorKinds
                     /\ stops(i + 1) )
                   => ExpectedExpressionAt(i + 1)
                /\ ( /\ Len(tokens) >= i + 3
                     /\ tokens[i + 1].kind \in PrimaryStartKinds \ {"LeftParentheses"}
                     /\ BinaryLevel(tokens[i + 2].kind) # 0
                     /\ stops(i + 2) )
                   => ExpectedExpressionAt(i + 2)
       /\ ( /\ parse_result'.tag = "Err"
            /\ parse_result'.error.kind = "ExpectedExpression" )
          => /\ parse_result'.error.token = tokens[current_token_index' + 1]
             /\ parse_result'.error.token.kind \notin PrimaryStartKinds \cup PrefixOperatorKinds
      ]_vars

\* C19 witness: in nil + a the identifier is named by ExpectedExpression and the
\* cursor is on it.
C19_Witness ==
    /\ KindsOf(tokens) = <<"Nil", "Plus", "Identifier">>
    /\ current_token_index = 2
    /\ parse_result.tag = "Err"
    /\ parse_result.error.kind = "ExpectedExpression"
    /\ parse_result.error.token = tokens[3]

----------------------------------------------------------------------------
\* Claims about Parser::try_from

\* Every item a full iteration of a new lexer on src yields, errors included;
\* eof and the cursor are those of the lexer so far.
RECURSIVE LexAll(_, _, _, _, _)
LexAll(src, start, end, line, eof) ==
    IF eof THEN <<>>
    ELSE LET o == NextToken(src, start, end, line, eof)
         IN IF o.res.tag = "Panic" THEN <<o.res>>
            ELSE <<o.res>> \o LexAll(src, o.lexeme_start, o.lexeme_end, o.line_number,
                                     o.end_of_file_emitted)

\* Parser::try_from has returned.
TryFromReturned == tokens # <<>> \/ parse_result # NoCall

\* C20: fail fast. When full iteration of the source yields at least one error,
\* Parser::try_from(Lexer::new(source)) returns the ParseError of kind
\* LexerError carrying the first error in source order and that error's token,
\* no parser exists and no grammar rule can run; when it yields no error, the
\* parser holds every token in order, ending with the only EndOfFile token.
C20_FailFast ==
    LET items == LexAll(source, 0, 0, 1, FALSE)
        errors == {i \in 1 .. Len(items) : items[i].tag = "Err"}
    IN ( /\ TryFromReturned
         /\ \A i \in 1 .. Len(items) : items[i].tag # "Panic" )
       => IF errors # {}
          THEN LET first == items[CHOOSE i \in errors : \A j \in errors : i <= j]
               IN /\ parse_result =
                        [tag |-> "Err",
                         error |-> [kind |-> "LexerError", token |-> first.token,
                                    lexer_error |-> first]]
                  /\ tokens = <<>>
                  /\ ~ENABLED CallExpressionRule
          ELSE /\ tokens = [i \in 1 .. Len(items) |-> items[i].token]
               /\ Last(tokens).kind = "EndOfFile"
               /\ \A i \in 1 .. Len(tokens) - 1 : tokens[i].kind # "EndOfFile"
               /\ parse_result.tag \in {"NoCall", "Ok", "Err"}
               /\ parse_result.tag = "Err" => parse_result.error.kind # "LexerError"

\* C20 witness: 1 @ (an error after a complete expression) was handed to
\* try_from, which returned the Unrecognized error of @ and built no parser.
C20_Witness ==
    /\ source = <<"1", " ", "@">>
    /\ tokens = <<>>
    /\ parse_result.tag = "Err"
    /\ parse_result.error.kind = "LexerError"
    /\ parse_result.error.lexer_error.kind = "Unrecognized"
    /\ parse_result.error.token.lexeme = <<"@">>

----------------------------------------------------------------------------
\* Claims about Display for Expression

\* The canonical form as the contract words it: ( operator-lexeme, space,
\* left, space, right ) for Binary, ( operator-lexeme, space, operand ) for
\* Unary, (group inner) for Grouping, the raw lexeme for Literal.
RECURSIVE Canonical(_)
Canonical(e) ==
    IF e.node = "Binary"
    THEN <<"(">> \o e.operator.lexeme \o <<" ">> \o Canonical(e.left_operand)
         \o <<" ">> \o Canonical(e.right_operand) \o <<")">>
    ELSE IF e.node = "Unary"
    THEN <<"(">> \o e.operator.lexeme \o <<" ">> \o Canonical(e.right_operand) \o <<")">>
    ELSE IF e.node = "Grouping"
    THEN <<"(", "g", "r", "o", "u", "p", " ">> \o Canonical(e.expression) \o <<")">>
    ELSE e.token.lexeme

\* How many elements of the text are the character c.
CountOf(text, c) == Cardinality({i \in 1 .. Len(text) : text[i] = c})

\* Every prefix of the text has at least as many ( as ).
NeverClosesEarly(text) ==
    \A n \in 1 .. Len(text) :
        CountOf(SubSeq(text, 1, n), "(") >= CountOf(SubSeq(text, 1, n), ")")

\* The non-literal nodes of e.
NonLiteralCount(e) ==
    LET nodes == SubExpressions(e)
    IN Cardinality({i \in 1 .. Len(nodes) : nodes[i].node # "Literal"})

----------------------------------------------------------------------------
\* Claims about the parser, continued

\* C22: every tree the parser returns is well formed: the operator of a Binary
\* node is an equality, comparison, term or factor operator, the operator of a
\* Unary node is ! or -, and a Literal node holds a Number, String, True, False
\* or Nil token; so no Identifier, punctuation or EndOfFile token is in a node.
C22_WellFormedTree ==
    parse_result.tag = "Ok" =>
        LET nodes == SubExpressions(parse_result.expression)
        IN \A i \in 1 .. Len(nodes) :
               /\ nodes[i].node \in {"Binary", "Unary", "Grouping", "Literal"}
               /\ nodes[i].node = "Binary" => BinaryLevel(nodes[i].operator.kind) # 0
               /\ nodes[i].node = "Unary" => nodes[i].operator.kind \in {"Bang", "Minus"}
               /\ nodes[i].node = "Literal" =>
                      nodes[i].token.kind \in {"Number", "String", "True", "False", "Nil"}

\* C22 witness: "a" == true was parsed to a Binary node of two Literal nodes.
C22_Witness ==
    /\ KindsOf(tokens) = <<"String", "EqualEqual", "True">>
    /\ parse_result.tag = "Ok"
    /\ parse_result.expression =
           Binary(Literal(tokens[1]), tokens[2], Literal(tokens[3]))

----------------------------------------------------------------------------
\* Claims about the lexer, continued

\* The items of the sequence that are not the EndOfFile token.
NonEndOfFileCount(items) ==
    Cardinality({i \in 1 .. Len(items) : ~IsEndOfFile(items[i])})

\* C23: progress. Every call of next_token that returns something other than
\* the EndOfFile token (a token or an error, directly or after comments and
\* whitespace) strictly increases lexeme_end; no step decreases it; it never
\* exceeds the length of the source, so at most that many items other than
\* EndOfFile are returned.
C23_LexerProgress ==
    [][/\ lexeme_end' >= lexeme_end
       /\ lexeme_end' <= Len(source)
       /\ ( /\ yielded' # yielded
            /\ ~IsEndOfFile(Last(yielded')) )
          => lexeme_end' > lexeme_end
       /\ NonEndOfFileCount(yielded') <= lexeme_end'
       /\ NonEndOfFileCount(yielded') <= Len(source)
      ]_vars

\* C23 witness: // then a newline then 1. was lexed: the comment and newline
\* were passed and the NumberTrailingDot error returned, lexeme_end beyond them.
C23_Witness ==
    /\ source = <<"/", "/", "\n", "1", ".">>
    /\ Len(yielded) = 1
    /\ IsError(yielded[1], "NumberTrailingDot")
    /\ lexeme_end = 4

----------------------------------------------------------------------------
\* Claims about the parser's cursor

\* The tokens a tree accounts for: one per Binary, Unary and Literal node, two
\* (the parentheses) per Grouping node.
RECURSIVE TokensIn(_)
TokensIn(e) ==
    CASE e.node = "Binary" -> 1 + TokensIn(e.left_operand) + TokensIn(e.right_operand)
      [] e.node = "Unary" -> 1 + TokensIn(e.right_operand)
      [] e.node = "Grouping" -> 2 + TokensIn(e.expression)
      [] OTHER -> 1

\* C24: termination. On a token list closed by EndOfFile a call of the
\* expression rule returns Ok or Err; it never moves the cursor back; on Ok it
\* has consumed at least one token, and exactly one token per Binary, Unary and
\* Literal node and two per Grouping node of the tree, so every loop round and
\* every recursive call of a rule was paid for by a consumed token.
C24_ParserTerminates ==
    [][ parse_result' # NoCall =>
          /\ parse_result'.tag \in {"Ok", "Err"}
          /\ current_token_index' >= current_token_index
          /\ current_token_index' < Len(tokens)
          /\ parse_result'.tag = "Ok" =>
                /\ current_token_index' > current_token_index
                /\ current_token_index' - current_token_index =
                       TokensIn(parse_result'.expression)
      ]_vars

\* C24 witness: ! ( 1 - 1 was parsed through the unary rule, the grouping and
\* the term loop up to EndOfFile, where the call returned its error.
C24_Witness ==
    /\ KindsOf(tokens) = <<"Bang", "LeftParentheses", "Number", "Minus", "Number">>
    /\ parse_result.tag = "Err"
    /\ parse_result.error.kind = "MissingRightParenthesis"
    /\ current_token_index = 5

\* C25: the cursor never moves past EndOfFile. For a token list whose last
\* element is its only EndOfFile token, after any number of rule calls,
\* successful or failed, current_token_index is at most the index of the
\* EndOfFile token, so peek_current_token reads inside the list.
C25_CursorInsideList ==
    ( /\ tokens # <<>>
      /\ Last(tokens).kind = "EndOfFile"
      /\ \A i \in 1 .. Len(tokens) - 1 : tokens[i].kind # "EndOfFile" )
    => /\ current_token_index <= Len(tokens) - 1
       /\ current_token_index + 1 \in DOMAIN tokens

\* C25 witness: 1 1 was parsed by two successful calls and a third call failed
\* on EndOfFile, the cursor resting on it.
C25_Witness ==
    /\ KindsOf(tokens) = <<"Number", "Number">>
    /\ current_token_index = 2
    /\ parse_result.tag = "Err"
    /\ parse_result.error.token.kind = "EndOfFile"

\* C26: the driver loop of test_parser terminates: calling the rule again and
\* again, going on after each Ok and after each error whose token is not
\* EndOfFile, eventually produces an error whose token is EndOfFile.
C26_DriverTerminates == <>DriverStopped

\* The loop has not reached its break, and its next round returns the error it
\* already returned with the cursor where it already is: the round repeats.
DriverRepeatsItself ==
    /\ tokens # <<>>
    /\ ~DriverStopped
    /\ parse_result.tag = "Err"
    /\ ParseResult(EqualityRule(tokens, current_token_index)) = parse_result
    /\ EqualityRule(tokens, current_token_index).index = current_token_index

----------------------------------------------------------------------------
\* Claims about positions and lines

\* How many newline bytes the source has before the 0-based offset p.
NewlinesBefore(p) == Cardinality({k \in 1 .. p : source[k] = "\n"})

\* The 0-based offset at which the line holding offset p starts.
LineStart(p) ==
    LET newlines == {k \in 1 .. p : source[k] = "\n"}
    IN IF newlines = {} THEN 0 ELSE CHOOSE k \in newlines : \A j \in newlines : j <= k

\* C27: every LexerError carries a precise position: line_number is the line
\* on which the error lexeme starts, column_number is 1 plus the number of
\* characters between the start of that line and the first byte of the error
\* lexeme, on the first line and on later ones.
C27_ErrorPosition ==
    result.tag = "Err" =>
        /\ result.line_number = 1 + NewlinesBefore(lexeme_start)
        /\ result.column_number = 1 + lexeme_start - LineStart(lexeme_start)

\* On the first line of the source the position of an error is precise.
ErrorPositionOnFirstLine ==
    (result.tag = "Err" /\ NewlinesBefore(lexeme_start) = 0) =>
        /\ result.line_number = 1
        /\ result.column_number = 1 + lexeme_start

\* The 0-based offset of the first byte of the item just returned: the end of
\* the source for the EndOfFile token, lexeme_start for any other item.
ResultStart == IF IsEndOfFile(result) THEN Len(source) ELSE lexeme_start

\* The token of the item just returned carries the line its lexeme starts on.
ResultLineIsPrecise ==
    IsItem(result) => result.token.line = 1 + NewlinesBefore(ResultStart)

\* C28: line tracking. Every token the lexer returns, EndOfFile and error
\* tokens included, carries 1 plus the number of newline bytes of the source
\* before its first byte, wherever those newlines are: in whitespace, after
\* comments, or inside earlier string literals.
C28_LineTracking == ResultLineIsPrecise

\* Where no string literal holds a newline, lines are tracked precisely.
LineTrackingOutsideStrings ==
    (\A k \in 1 .. Len(source) : source[k] # "\"") => ResultLineIsPrecise

----------------------------------------------------------------------------
\* Claims about the cursor helper

\* C29: consume_current_token_of_kind advances only on success. When the kind
\* of the current token is in the given set and is not EndOfFile it returns
\* true and the cursor grows by exactly one; otherwise it returns false and
\* the cursor stays; the token list never changes; at EndOfFile it never
\* matches, even when EndOfFile is in the set.
C29_ConsumeOnlyOnMatch ==
    [][ parse_result'.tag = "Consume" =>
          LET current == tokens[current_token_index + 1]
              matches == /\ current.kind \in parse_result'.kinds
                         /\ current.kind # "EndOfFile"
          IN /\ parse_result'.returned = matches
             /\ matches => current_token_index' = current_token_index + 1
             /\ ~matches => current_token_index' = current_token_index
             /\ tokens' = tokens
      ]_vars

\* C29 witness: on 1 - the helper matched the number and the minus, and at
\* EndOfFile a call with a slice naming EndOfFile returned false.
C29_Witness ==
    /\ KindsOf(tokens) = <<"Number", "Minus">>
    /\ current_token_index = 2
    /\ parse_result.tag = "Consume"
    /\ "EndOfFile" \in parse_result.kinds
    /\ parse_result.returned = FALSE

----------------------------------------------------------------------------
\* Claims about partial parses

\* The token at 1-based position k cannot continue a complete expression that
\* ends before it: it is no equality, comparison, term or factor operator.
CannotContinue(k) == BinaryLevel(tokens[k].kind) = 0

\* C30: a successful parse need not consume the whole input. When the token
\* list begins with a complete expression (a number, or number, operator,
\* number) followed by a token that cannot continue it, parsing from the start
\* returns Ok with that expression and leaves the cursor on that token, whatever
\* follows (for 1 2: Literal(1), cursor on 2); and whenever a call returns Ok
\* the token under the cursor is no equality, comparison, term or factor
\* operator.
C30_PartialParse ==
    [][/\ ( /\ ParsedFromStart
            /\ tokens[1].kind = "Number"
            /\ CannotContinue(2) )
          => /\ parse_result' = [tag |-> "Ok", expression |-> Literal(tokens[1])]
             /\ current_token_index' = 1
       /\ ( /\ ParsedFromStart
            /\ Len(tokens) >= 4
            /\ tokens[1].kind = "Number"
            /\ ~CannotContinue(2)
            /\ tokens[3].kind = "Number"
            /\ CannotContinue(4) )
          => /\ parse_result' =
                  [tag |-> "Ok",
                   expression |-> Binary(Literal(tokens[1]), tokens[2], Literal(tokens[3]))]
             /\ current_token_index' = 3
       /\ parse_result'.tag = "Ok" => CannotContinue(current_token_index' + 1)
      ]_vars

\* C30 witness: 1 1 was parsed to Literal(1) with the cursor on the second
\* number, which is not EndOfFile.
C30_Witness ==
    /\ KindsOf(tokens) = <<"Number", "Number">>
    /\ current_token_index = 1
    /\ parse_result = [tag |-> "Ok", expression |-> Literal(tokens[1])]

----------------------------------------------------------------------------
\* Claims about error kinds and the previous token

\* C31: UnaryExpressionMissingOperand is never produced. The only error kinds
\* the grammar rules return are ExpectedExpression and MissingRightParenthesis,
\* and prefix operators with no operand after them (- then EndOfFile, or then
\* any token that starts no expression) give ExpectedExpression naming the
\* token after the operators.
C31_NoUnaryMissingOperand ==
    [][/\ parse_result'.tag = "Err" =>
             parse_result'.error.kind \in {"ExpectedExpression", "MissingRightParenthesis"}
       /\ ParsedFromStart =>
             LET n == PrefixOperatorCount(tokens, 1)
             IN ( /\ n >= 1
                  /\ tokens[n + 1].kind \notin PrimaryStartKinds )
                => /\ parse_result' =
                        [tag |-> "Err",
                         error |-> [kind |-> "ExpectedExpression", token |-> tokens[n + 1]]]
                   /\ current_token_index' = n
      ]_vars

\* C31 witness: - then EndOfFile was parsed: ExpectedExpression names EndOfFile.
C31_Witness ==
    /\ KindsOf(tokens) = <<"Minus">>
    /\ current_token_index = 1
    /\ parse_result =
           [tag |-> "Err", error |-> [kind |-> "ExpectedExpression", token |-> tokens[2]]]

\* The tokens held by the nodes of a tree, in source order: left operand,
\* operator, right operand for Binary; operator, operand for Unary.
RECURSIVE TreeTokens(_)
TreeTokens(e) ==
    CASE e.node = "Binary" ->
            TreeTokens(e.left_operand) \o <<e.operator>> \o TreeTokens(e.right_operand)
      [] e.node = "Unary" -> <<e.operator>> \o TreeTokens(e.right_operand)
      [] e.node = "Grouping" -> TreeTokens(e.expression)
      [] OTHER -> <<e.token>>

IsNoParenthesis(token) == token.kind \notin {"LeftParentheses", "RightParentheses"}

\* C32: peek_previous_token never underflows and returns the token that was
\* just consumed. No call on a token list closed by EndOfFile returns a tree or
\* an error holding the result of an underflowing index, and the tokens held by
\* the nodes of a returned tree are, in order, exactly the tokens the call
\* consumed (the parentheses of groupings aside).
C32_PreviousTokenIsConsumed ==
    [][ parse_result' # NoCall =>
          /\ parse_result'.tag = "Err" => parse_result'.error.token # IndexPanic
          /\ parse_result'.tag = "Ok" =>
                LET held == TreeTokens(parse_result'.expression)
                    consumed == SubSeq(tokens, current_token_index + 1, current_token_index')
                IN /\ \A i \in 1 .. Len(held) : held[i] # IndexPanic
                   /\ held = SelectSeq(consumed, IsNoParenthesis)
      ]_vars

\* C32 witness: ( 1 * 1 ) was parsed from its start; the tree holds the
\* consumed tokens 1, *, 1.
C32_Witness ==
    /\ KindsOf(tokens) =
           <<"LeftParentheses", "Number", "Star", "Number", "RightParentheses">>
    /\ current_token_index = 5
    /\ parse_result.tag = "Ok"
    /\ TreeTokens(parse_result.expression) = <<tokens[2], tokens[3], tokens[4]>>

----------------------------------------------------------------------------
\* Lexer indexes

\* The index get_current_byte reads and the index get_next_byte reads.
CurrentByteIndex == lexeme_end
NextByteIndex == lexeme_end + 1

\* The half-open byte range of the source a returned String token is sliced from.
StringSliceStart == lexeme_start + 1
StringSliceEnd == lexeme_end - 1

ReturnedString == result \notin {NoCall, None} /\ result.tag = "Ok" /\ result.token.kind = "String"

\* C33: in every reachable state of the lexer lexeme_start <= lexeme_end <=
\* source length; the index the current byte is read at and the index the next
\* byte is read at are below the source length whenever the availability check
\* that guards the read passes; and when a String token was returned, the slice
\* [lexeme_start + 1, lexeme_end - 1) its lexeme was taken from is a valid
\* range of the source, the lexeme being exactly the bytes in it.
C33_LexerIndexInvariant ==
    /\ 0 <= lexeme_start
    /\ lexeme_start <= lexeme_end
    /\ lexeme_end <= Len(source)
    /\ CurrentByteAvailable(source, lexeme_end) => CurrentByteIndex < Len(source)
    /\ NextByteAvailable(source, lexeme_end) => NextByteIndex < Len(source)
    /\ ReturnedString =>
          /\ StringSliceStart <= StringSliceEnd
          /\ StringSliceEnd <= Len(source)
          /\ Len(result.token.lexeme) = StringSliceEnd - StringSliceStart
          /\ \A i \in 1 .. Len(result.token.lexeme) :
                 result.token.lexeme[i] = source[StringSliceStart + i]

\* C33 witness: the string literal "1" was returned from the source "1"/ ;
\* the next byte index is the source length and is not read.
C33_Witness ==
    /\ source = <<"\"", "1", "\"", "/">>
    /\ ReturnedString
    /\ lexeme_start = 0
    /\ lexeme_end = 3
    /\ result.token.lexeme = <<"1">>
    /\ CurrentByteAvailable(source, lexeme_end)
    /\ ~NextByteAvailable(source, lexeme_end)

----------------------------------------------------------------------------
\* The two printers

\* The tree of test ast_print: -123 * (45.67).
AstPrintExpression ==
    Binary(Unary(Token("Minus", <<"-">>, 0), Literal(Token("Number", <<"1", "2", "3">>, 0))),
           Token("Star", <<"*">>, 0),
           Grouping(Literal(Token("Number", <<"4", "5", ".", "6", "7">>, 0))))

\* C34: the visitor-pattern printer is an equivalent re-implementation of the
\* Display printer. Whatever AbstractSyntaxTreePrinter::print returns for an
\* expression tree is, byte for byte, what Display (to_string) gives for the
\* tree of the same shape and tokens.
C34_PrintersAgree ==
    [][output' = ExpressionToString(parse_result.expression)]_vars

\* C34 witness: the tree of test ast_print was printed by the visitor as
\* (* (- 123) (group 45.67)).
C34_Witness ==
    /\ parse_result # NoCall
    /\ parse_result.tag = "Ok"
    /\ parse_result.expression = AstPrintExpression
    /\ output = <<"(", "*", " ", "(", "-", " ", "1", "2", "3", ")", " ",
                  "(", "g", "r", "o", "u", "p", " ", "4", "5", ".", "6", "7", ")", ")">>

----------------------------------------------------------------------------
\* Claims about the historical lexer

IsLoxError(item, name) == item.tag = "Err" /\ item.kind.name = name

\* The offset right after the digits of the number that starts at lexeme_start.
RECURSIVE DigitsEnd(_)
DigitsEnd(p) ==
    IF p < Len(source) /\ source[p + 1] \in Digits THEN DigitsEnd(p + 1) ELSE p

\* C35 (as claimed): after the historical lexer returns a lexical error its
\* next call starts scanning at the byte right after the bad lexeme, and no
\* byte is skipped: after an Unrecognized error lexeme_end is the end of the
\* unrecognized run whenever a byte follows the run; after a NumberTrailingDot
\* error it is at the offending dot or right after it; after an
\* UnterminatedStringLiteral error nothing of the source is left.
C35_LoxErrorRecovery ==
    /\ IsLoxError(result, "Unrecognized") =>
          LET runEnd == lexeme_start + Len(result.kind.lexeme)
          IN runEnd < Len(source) => lexeme_end = runEnd
    /\ IsLoxError(result, "NumberTrailingDot") =>
          lexeme_end \in {DigitsEnd(lexeme_start), DigitsEnd(lexeme_start) + 1}
    /\ IsLoxError(result, "UnterminatedStringLiteral") => lexeme_end >= Len(source)

\* The claim's example as the historical lexer runs it: on @1 the error for @
\* is followed by EndOfFile, the byte 1 was never scanned.
LoxSkipsByteAfterError ==
    /\ source = <<"@", "1">>
    /\ Len(yielded) = 2
    /\ IsLoxError(yielded[1], "Unrecognized")
    /\ yielded[1].kind.lexeme = <<"@">>
    /\ IsEndOfFile(yielded[2])

\* The (kind, lexeme) pair of a returned token.
KindAndLexeme(item) == <<item.token.kind, item.token.lexeme>>

NoErrorIn(items) == \A i \in 1 .. Len(items) : items[i].tag = "Ok"

\* C36: the two lexer variants agree on error-free input. When a full
\* iteration of the current lexer over the source yields no error, every item
\* the historical lexer has yielded so far (up to its EndOfFile, no call made
\* after it) is a token, the i-th with the kind and the lexeme of the current
\* lexer's i-th token, and once the historical lexer has emitted its EndOfFile
\* the two sequences have the same length and end with their only EndOfFile.
C36_LexersAgreeWithoutErrors ==
    LET items == LexAll(source, 0, 0, 1, FALSE)
    IN (NoErrorIn(items) /\ polls = 0) =>
          /\ NoErrorIn(yielded)
          /\ Len(yielded) <= Len(items)
          /\ \A i \in 1 .. Len(yielded) : KindAndLexeme(yielded[i]) = KindAndLexeme(items[i])
          /\ end_of_file_emitted =>
                /\ Len(yielded) = Len(items)
                /\ \A i \in 1 .. Len(yielded) : IsEndOfFile(yielded[i]) <=> i = Len(yielded)

\* C36 witness: the historical lexer iterated "="/ to its end: the String
\* token = (quotes dropped), Slash, EndOfFile, as the current lexer yields.
C36_Witness ==
    /\ source = <<"\"", "=", "\"", "/">>
    /\ end_of_file_emitted
    /\ polls = 0
    /\ NoErrorIn(LexAll(source, 0, 0, 1, FALSE))
    /\ Len(yielded) = 3
    /\ KindAndLexeme(yielded[1]) = <<"String", <<"=">> >>
    /\ KindAndLexeme(yielded[2]) = <<"Slash", <<"/">> >>
    /\ IsEndOfFile(yielded[3])

----------------------------------------------------------------------------
\* Claims about the NFA lexer

\* The tokens the Lexer yields for the source before its EndOfFile.
LexerTokensBeforeEndOfFile ==
    LET items == LexAll(source, 0, 0, 1, FALSE)
    IN [i \in 1 .. Len(items) - 1 |-> items[i].token]

\* nfa.rs names the kind of `*` Asterisk, token.rs and lexer.rs name it Star.
LexerKindName(kind) == IF kind = "Asterisk" THEN "Star" ELSE kind

\* lex(source) has been iterated to its end.
LexIterated == result = None

NfaAgreesWithLexer ==
    /\ Len(yielded) = Len(LexerTokensBeforeEndOfFile)
    /\ \A i \in 1 .. Len(yielded) :
          /\ LexerKindName(yielded[i].kind) = LexerTokensBeforeEndOfFile[i].kind
          /\ yielded[i].lexeme = LexerTokensBeforeEndOfFile[i].lexeme
          /\ yielded[i].line = LexerTokensBeforeEndOfFile[i].line

\* C37 (as claimed): on a source made only of ( ) { } , . - + ; * ! = < > and
\* newline, nfa::lex yields, in order, the tokens the Lexer yields before its
\* EndOfFile, with the same kind, lexeme and line, also when the last byte of
\* the source is !, =, < or >.
C37_NfaAgreesOnPunctuation == LexIterated => NfaAgreesWithLexer

\* The two agree on every such source that does not end in a one-byte
\* operator !, =, < or > (one that no = follows).
NfaAgreesUnlessOperatorIsLast ==
    (LexIterated /\ lexeme_start = lexeme_end) => NfaAgreesWithLexer

\* lex was left waiting in a CheckFor state: the source ended right after an
\* operator byte, and the token of that byte was never yielded.
NfaDropsLastOperator ==
    /\ LexIterated
    /\ source = <<"(", "!">>
    /\ Len(yielded) = 1
    /\ yielded[1].kind = "LeftParentheses"
    /\ LexerTokensBeforeEndOfFile[2].kind = "Bang"

====
